---- MODULE Spec2Model ----
(***************************************************************************)
(* Model of the universe core of helios-demo-backend:                      *)
(*   HeliosUniverse / HeliosEngine   (src/unnamed/part_000, lines 462-1018) *)
(*   UniverseManager                 (src/lib/universe-manager.js)          *)
(*                                                                         *)
(* JavaScript objects that hold universe state live in an explicit heap    *)
(* (reference -> object), so that sharing of storage between a universe,   *)
(* its clones, its snapshots and the caller's initialState is something    *)
(* the model can get wrong.  uuidv4() is modelled by fresh counters.       *)
(***************************************************************************)
EXTENDS Integers, Sequences, FiniteSets, TLC

\* ---------------------------------------------------------------- bounds
\* universes ever constructed (uuid space of universe ids)
MaxIds == 3
\* createUniverses calls that pass validation (uuid space of batch ids)
MaxBatches == 1
\* cap on statistics.operationsCompleted
MaxOperations == 2
\* longest operations list given to processBatchOperation
MaxOpsLen == 3
\* analyses counted by operationsCompleted beyond MaxOperations
MaxAnalyses == 1
\* iterations of the chunk loop followed in one createUniverses call
MaxChunks == 4
\* longest operationQueue
MaxQueueLen == 3
\* queued batches processed in one behaviour
MaxQueueBatches == 2

\* ------------------------------------------------------ program constants
\* upper limit of count in createUniverses
maxBatchCount == 10000
\* HeliosEngine config.maxUniverses as configured for the engine under study
cfgMaxUniverses == 2
\* UniverseManager config.maxConcurrentOperations as configured for the
\* manager under study
cfgMaxConcurrentOperations == 2

\* ------------------------------------------------------------ value sets
Keys == {"x", "y"}
Vals == {1, 2}
\* a JavaScript object used as universe state: a mapping from keys to values
Objects == UNION {[D -> Vals] : D \in SUBSET Keys}
EmptyObj == CHOOSE o \in Objects : DOMAIN o = {}
\* the payloads callers pass as updates / modifications / initialState
Payloads == {o \in Objects : Cardinality(DOMAIN o) = 1 /\ \A k \in DOMAIN o : o[k] = 2}
\* the payload { x: 2 }
Px2 == CHOOSE o \in Payloads : DOMAIN o = {"x"}
InitialStates == {o \in Objects : DOMAIN o = {"x"} /\ o["x"] = 1}
\* A value that is itself an object, as in initialState = { x: 1, y: { ... } }:
\* the property holds a reference to the nested object, and a spread copies
\* the reference.  The reference is a number that is not in Vals.
NestedRef == 3
\* the initial state { x: 1, y: <nested object> }
NestedStates == {[k \in Keys |-> IF k = "x" THEN 1 ELSE NestedRef]}
\* the nested objects an object holds references to
NestedIn(o) == {o[k] : k \in DOMAIN o} \cap {NestedRef}
Min(a, b) == IF a <= b THEN a ELSE b
Max(a, b) == IF a >= b THEN a ELSE b
\* null parentId
Null == 0
Ids == 1..MaxIds
\* the ids a caller may name: those of the universes constructed so far and
\* one id that no universe has
KnownIds(us) == 1..Min(Len(us) + 1, MaxIds)
\* values config.batchSize is configured with
BatchSizes == 1..MaxIds
\* any integer config.batchSize: a negative one, zero and the positive ones
AnyBatchSizes == (-1..0) \cup BatchSizes
\* counts a caller may pass: out of range below, in range, out of range above
Counts == (-1..MaxIds) \cup {maxBatchCount + 1}
\* the sets of creation indices at which an engine may reject the create
RejectSets(count) == SUBSET (0..(Min(count, MaxIds) - 1))
\* sourceIds lists a caller may pass to merge
SourceLists(S) ==
  {<<>>} \cup {<<a>> : a \in S}
         \cup {<<p[1], p[2]>> : p \in {q \in S \X S : q[1] < q[2]}}

\* the age limits of getUniverseAgeDistribution, in milliseconds
newAgeLimit == 300000
activeAgeLimit == 1800000
\* ages of a tracked entry around the two limits
AgeSamples == {newAgeLimit - 1, newAgeLimit, activeAgeLimit}

\* ------------------------------------------------------- JavaScript values
\* A value a caller passes as params.updates or params.modifications: its kind
\* and the own enumerable properties a spread { ...v } copies (none for
\* undefined, null and numbers, the index properties for strings and arrays).
Undefined == [kind |-> "undefined", props |-> EmptyObj]
JsNull == [kind |-> "null", props |-> EmptyObj]
JsNumber == [kind |-> "number", props |-> EmptyObj]
\* a one-character string and a one-element array
JsString == [kind |-> "string", props |-> [k \in {"0"} |-> 2]]
JsArray == [kind |-> "array", props |-> [k \in {"0"} |-> 2]]
JsObject(o) == [kind |-> "object", props |-> o]
JsValues ==
  {Undefined, JsNull, JsNumber, JsString, JsArray}
    \cup {JsObject(o) : o \in Payloads}

\* typeof v === 'object': objects, arrays and null
TypeofObject(v) == v.kind \in {"object", "array", "null"}
\* !v: undefined and null are falsy; the number and the string of the model
\* are a non-zero number and a non-empty string
Falsy(v) == v.kind \in {"undefined", "null"}

VARIABLES
  heap,          \* reference -> object: storage of state objects
  univ,          \* sequence of HeliosUniverse objects, indexed by id
  engine,        \* HeliosEngine.universes: set of ids in the engine's map
  tracked,       \* UniverseManager.universes: set of ids the manager tracks
  batchSize,     \* UniverseManager.config.batchSize
  snapCount,     \* snapshots taken so far (fresh snapshot ids)
  batches,       \* batch ids given to universes so far (fresh batch ids)
  opsCompleted,  \* UniverseManager.statistics.operationsCompleted
  batchOpsCompleted,  \* UniverseManager.statistics.batchOperationsCompleted
  statistics,    \* UniverseManager.statistics: totalCreated, totalDestroyed
                 \* and peakConcurrentUniverses
  operationQueue,  \* UniverseManager.operationQueue
  isProcessing,  \* UniverseManager.isProcessing
  call,          \* the createUniverses call in flight, suspended at its await
  last           \* outcome of the call or step that ran last

vars == <<heap, univ, engine, tracked, batchSize, snapCount, batches,
          opsCompleted, batchOpsCompleted, statistics, operationQueue,
          isProcessing, call, last>>

\* this.statistics as the constructor sets it
NoStatistics ==
  [totalCreated |-> 0, totalDestroyed |-> 0, peakConcurrentUniverses |-> 0]

\* the queue of the interval processor
queueVars == <<operationQueue, isProcessing>>
\* the manager's counters and its queue
mgr == <<statistics, queueVars>>

\* ------------------------------------------------------------------ heap
\* the smallest reference not in use
NewRef(h) == CHOOSE r \in 1..(Cardinality(DOMAIN h) + 1) :
               /\ r \notin DOMAIN h
               /\ \A q \in 1..(r - 1) : q \in DOMAIN h

\* content of { ...a, ...b }: b's keys over a's
Spread(a, b) == [k \in DOMAIN a \cup DOMAIN b |->
                   IF k \in DOMAIN b THEN b[k] ELSE a[k]]

\* Object.assign(a, b): writes b's keys into the object a itself
ObjAssignInPlace(h, a, b) ==
  [heap |-> [h EXCEPT ![a] = Spread(h[a], b)], ref |-> a]

\* the object literal { ...a, ...b } for a reference a and content b:
\* a fresh object; the object a refers to is not written
ObjSpread(h, a, b) ==
  LET r == NewRef(h)
  IN  [heap |-> [q \in DOMAIN h \cup {r} |->
                   IF q = r THEN Spread(h[a], b) ELSE h[q]],
       ref |-> r]

\* a caller-owned object literal
Alloc(h, o) ==
  LET r == NewRef(h)
  IN  [heap |-> [q \in DOMAIN h \cup {r} |-> IF q = r THEN o ELSE h[q]],
       ref |-> r]

\* --------------------------------------------------------- HeliosUniverse
\* the sum of f over the finite set S
RECURSIVE SumOver(_, _)
SumOver(S, f) ==
  IF S = {} THEN 0
  ELSE LET k == CHOOSE m \in S : TRUE IN f[k] + SumOver(S \ {k}, f)

\* JSON.stringify(v).length of a property value: one digit for a number of
\* the model, the two characters of {} for the nested object
ValueLength(v) == IF v = NestedRef THEN 2 ELSE 1

\* JSON.stringify(o).length: the braces, "k":v for each property (the keys of
\* the model have one character) and the commas between the properties
JsonLength(o) ==
  LET n == Cardinality(DOMAIN o)
  IN  2 + SumOver(DOMAIN o, [k \in DOMAIN o |-> 4 + ValueLength(o[k])])
        + (IF n > 0 THEN n - 1 ELSE 0)

\* new HeliosUniverse(config): this.state = { ...config.initialState };
\* metadata keeps batchId and creationIndex when config.metadata has them,
\* metadata.type = config.type || 'default' and
\* metadata.stateSize = JSON.stringify(this.state).length
NewUniverse(h, cfg) ==
  LET s == ObjSpread(h, cfg.initialState, EmptyObj)
  IN  [heap |-> s.heap,
       u |-> [id |-> cfg.id,
              parentId |-> cfg.parentId,
              state |-> s.ref,
              batchId |-> cfg.batchId,
              creationIndex |-> cfg.creationIndex,
              type |-> IF "type" \in DOMAIN cfg THEN cfg.type ELSE "default",
              stateSize |-> JsonLength(s.heap[s.ref]),
              snapshots |-> <<>>,
              children |-> <<>>]]

\* clone() without the push on this.children
cloneNoChild(h, us, src) ==
  LET id == Len(us) + 1
      n  == NewUniverse(h, [id |-> id,
                            parentId |-> us[src].id,
                            initialState |-> us[src].state,
                            batchId |-> us[src].batchId,
                            creationIndex |-> us[src].creationIndex])
  IN  [heap |-> n.heap, univ |-> Append(us, n.u), id |-> id]

\* clone() that also lists the source among the children of the clone
cloneBackLink(h, us, src) ==
  LET id == Len(us) + 1
      n  == NewUniverse(h, [id |-> id,
                            parentId |-> us[src].id,
                            initialState |-> us[src].state,
                            batchId |-> us[src].batchId,
                            creationIndex |-> us[src].creationIndex])
      withChild == [us EXCEPT ![src].children = Append(@, id)]
  IN  [heap |-> n.heap,
       univ |-> Append(withChild, [n.u EXCEPT !.children = <<src>>]),
       id |-> id]

\* HeliosUniverse.clone(config): a universe with a fresh id, parentId = this.id,
\* initialState = this.state, metadata inherited; this.children.push(clone.id)
clone(h, us, src) ==
  LET id == Len(us) + 1
      n  == NewUniverse(h, [id |-> id,
                            parentId |-> us[src].id,
                            initialState |-> us[src].state,
                            batchId |-> us[src].batchId,
                            creationIndex |-> us[src].creationIndex])
      withChild == [us EXCEPT ![src].children = Append(@, id)]
  IN  [heap |-> n.heap, univ |-> Append(withChild, n.u), id |-> id]

\* createSnapshot with this.snapshots.unshift(snapshot)
createSnapshotUnshift(h, us, id, snapId) ==
  LET s == ObjSpread(h, us[id].state, EmptyObj)
      snap == [id |-> snapId, universeId |-> us[id].id, state |-> s.ref]
  IN  [heap |-> s.heap,
       univ |-> [us EXCEPT ![id].snapshots = <<snap>> \o @],
       snapshot |-> snap]

\* HeliosUniverse.createSnapshot(metadata): state: { ...this.state }, pushed
\* on this.snapshots
createSnapshot(h, us, id, snapId) ==
  LET s == ObjSpread(h, us[id].state, EmptyObj)
      snap == [id |-> snapId, universeId |-> us[id].id, state |-> s.ref]
  IN  [heap |-> s.heap,
       univ |-> [us EXCEPT ![id].snapshots = Append(@, snap)],
       snapshot |-> snap]

\* updateState that drops what the state held: this.state = { ...updates }
updateStateLost(h, us, id, updates) ==
  LET s == Alloc(h, updates)
      oldSize == JsonLength(h[us[id].state])
      newSize == JsonLength(s.heap[s.ref])
  IN  [heap |-> s.heap,
       univ |-> [us EXCEPT ![id].state = s.ref, ![id].stateSize = newSize],
       sizeChange |-> newSize - oldSize,
       cowTriggered |-> us[id].parentId # Null]

\* updateState that leaves metadata.stateSize as it was
updateStateStaleSize(h, us, id, updates) ==
  LET s == ObjSpread(h, us[id].state, updates)
      oldSize == JsonLength(h[us[id].state])
  IN  [heap |-> s.heap,
       univ |-> [us EXCEPT ![id].state = s.ref],
       sizeChange |-> us[id].stateSize - oldSize,
       cowTriggered |-> us[id].parentId # Null]

\* HeliosUniverse.updateState(updates): oldSize is the serialized length of
\* the state before, this.state = { ...this.state, ...updates },
\* metadata.stateSize is the serialized length after, and the result carries
\* sizeChange = metadata.stateSize - oldSize
updateState(h, us, id, updates) ==
  LET s == ObjSpread(h, us[id].state, updates)
      oldSize == JsonLength(h[us[id].state])
      newSize == JsonLength(s.heap[s.ref])
  IN  [heap |-> s.heap,
       univ |-> [us EXCEPT ![id].state = s.ref, ![id].stateSize = newSize],
       sizeChange |-> newSize - oldSize,
       cowTriggered |-> us[id].parentId # Null]

\* ----------------------------------------------------------- HeliosEngine
\* HeliosEngine.createUniverse(config): constructs the universe from
\* config.initialState and config.metadata and puts it in this.universes;
\* config.maxUniverses is not consulted
createUniverse(h, us, eng, cfg) ==
  LET id == Len(us) + 1
      n  == NewUniverse(h, [id |-> id,
                            parentId |-> Null,
                            initialState |-> cfg.initialState,
                            batchId |-> cfg.batchId,
                            creationIndex |-> cfg.creationIndex])
  IN  [heap |-> n.heap, univ |-> Append(us, n.u), engine |-> eng \cup {id},
       id |-> id]

\* the object a universe's state refers to
StateOf(u) == heap[univ[u].state]

\* every reference something holds, holder by holder: each universe's state
\* and then its snapshots' states, then the initialState of the call in flight
RECURSIVE RootSeq(_, _, _)
RootSeq(us, c, i) ==
  IF i > Len(us)
  THEN IF c.initialState = Null THEN <<>> ELSE <<c.initialState>>
  ELSE <<us[i].state>>
         \o [j \in DOMAIN us[i].snapshots |-> us[i].snapshots[j].state]
         \o RootSeq(us, c, i + 1)

\* Objects nothing refers to are collected, and the references are renumbered
\* in the order of RootSeq: an object's address is not observable, so two
\* heaps that differ only in addresses are the same state.
Normalize(h, us, c) ==
  LET q == RootSeq(us, c, 1)
      first(r) == CHOOSE k \in DOMAIN q :
                    q[k] = r /\ \A m \in 1..(k - 1) : q[m] # r
      rank(r) == Cardinality({q[m] : m \in 1..first(r)})
      live == {q[k] : k \in DOMAIN q}
  IN  [heap |-> [n \in 1..Cardinality(live) |->
                   h[CHOOSE r \in live : rank(r) = n]],
       univ |-> [i \in DOMAIN us |->
                   [us[i] EXCEPT
                      !.state = rank(@),
                      !.snapshots = [j \in DOMAIN @ |->
                                       [@[j] EXCEPT !.state = rank(@)]]]],
       call |-> IF c.initialState = Null THEN c
                ELSE [c EXCEPT !.initialState = rank(@)]]

\* the heap, the universes and the call in flight after a step
Commit(h, us, c) ==
  LET n == Normalize(h, us, c)
  IN  heap' = n.heap /\ univ' = n.univ /\ call' = n.call

SeqSet(q) == {q[i] : i \in DOMAIN q}

\* -------------------------------------------------------- what ran last
\* A call can start when no createUniverses call is suspended (see Next) and
\* the call before it did not throw.  A call that throws changes nothing but
\* `last`, so the calls that can follow it are the calls that can follow the
\* state it was made in; they are explored from that state and not again.
CanCall == call.pc = "idle" /\ last.outcome = "ok"

\* op: the call; outcome: "ok" or the kind of Error thrown; of a call that
\* returned, id: its target universe (its batch id for createUniverses), newId:
\* the universe or snapshot it made, count, universes, chunkSizes: the count
\* asked of createUniverses, the universes it returned and the size of each
\* chunk it issued; sourceIds: the list given to merge; ops, results: the list
\* given to processBatchOperation and the results it returned; cowTriggered:
\* the flag in the updateResult of an update; events: what the call emitted;
\* analysis: the relationships and integrity parts of an analysis; found: the
\* universe getUniverse returned; stats: the counts getStatistics returned
NoAnalysis ==
  [siblings |-> <<>>, descendants |-> 0, healthy |-> TRUE, issues |-> <<>>]

NoStats == [activeUniverses |-> 0, byType |-> <<>>, byAge |-> <<>>,
            byComplexity |-> <<>>]

NoLast ==
  [op |-> "none", id |-> 0, outcome |-> "ok", newId |-> 0,
   count |-> 0, universes |-> <<>>, chunkSizes |-> <<>>, sourceIds |-> <<>>,
   ops |-> <<>>, results |-> <<>>, cowTriggered |-> FALSE, sizeChange |-> 0,
   events |-> <<>>,
   analysis |-> NoAnalysis, found |-> Null, stats |-> NoStats]

\* this.emit(name, ...)
Event(name) == [name |-> name]

IdleCall ==
  [pc |-> "idle", count |-> 0, i |-> 0, bs |-> 0, batchId |-> 0,
   initialState |-> Null, universes |-> <<>>, chunk |-> <<>>,
   chunkSizes |-> <<>>, rejects |-> {}, chunkFailed |-> FALSE,
   ops |-> <<>>, outcomes |-> <<>>, start |-> <<>>, emitted |-> <<>>,
   expired |-> FALSE, startedAtExpiry |-> 0, batch |-> <<>>]

\* ------------------------------------------- UniverseManager.createUniverses
\* the validation that accepts a count of 0
CountInvalidStrict(count) == count < 0 \/ count > maxBatchCount

\* if (count <= 0 || count > 10000) throw
CountInvalid(count) == count <= 0 \/ count > maxBatchCount

\* the index that restarts in every chunk
CreationIndexInChunk(i, j) == j

\* creationIndex: i + j
CreationIndex(i, j) == i + j

\* the inner for loop: items j .. n-1 of the chunk that starts at c.i, each a
\* call of heliosEngine.createUniverse with the caller's config.initialState.
\* c.rejects: the creation indices at which the engine's promise rejects (none
\* for HeliosEngine, whose createUniverse cannot throw); a rejected item makes
\* no universe, and the items after it are issued all the same.
RECURSIVE CreateChunk(_, _, _, _)
CreateChunk(w, c, j, n) ==
  IF j >= n THEN w
  ELSE IF CreationIndex(c.i, j) \in c.rejects
  THEN CreateChunk([w EXCEPT !.failed = TRUE], c, j + 1, n)
  ELSE LET r == createUniverse(w.heap, w.univ, w.engine,
                  [initialState |-> c.initialState,
                   batchId |-> c.batchId,
                   creationIndex |-> CreationIndex(c.i, j)])
       IN  CreateChunk([heap |-> r.heap, univ |-> r.univ,
                        engine |-> r.engine, ids |-> Append(w.ids, r.id),
                        failed |-> w.failed],
                       c, j + 1, n)

\* the outer loop without its await: every remaining item is issued at once
AdvanceNoBarrier(h, c) ==
  IF c.i < c.count
  THEN LET n == c.count - c.i
           w == CreateChunk([heap |-> h, univ |-> univ, engine |-> engine,
                             ids |-> <<>>, failed |-> FALSE], c, 0, n)
           c1 == [c EXCEPT !.pc = "await", !.chunk = w.ids,
                           !.chunkFailed = w.failed,
                           !.chunkSizes = Append(@, n)]
       IN  /\ Commit(w.heap, w.univ, c1)
           /\ engine' = w.engine
           /\ UNCHANGED statistics
           /\ last' = [NoLast EXCEPT !.op = "createUniverses:await"]
  ELSE /\ Commit(h, univ, IdleCall)
       /\ UNCHANGED engine
       /\ statistics' =
            [statistics EXCEPT
               !.totalCreated = @ + c.count,
               !.peakConcurrentUniverses = Max(@, Cardinality(tracked'))]
       /\ last' = [NoLast EXCEPT !.op = "createUniverses",
                                 !.id = c.batchId, !.count = c.count,
                                 !.universes = c.universes,
                                 !.chunkSizes = c.chunkSizes,
                                 !.events = <<Event("batch:created")>>]

\* the outer for loop from its test to the next await, or to the return:
\* sets heap', univ', engine', call', statistics' and last'.  After the loop
\* statistics.totalCreated += count and peakConcurrentUniverses becomes
\* Math.max(peakConcurrentUniverses, this.universes.size).
Advance(h, c) ==
  IF c.i < c.count
  THEN LET n == Min(c.bs, c.count - c.i)
           w == CreateChunk([heap |-> h, univ |-> univ, engine |-> engine,
                             ids |-> <<>>, failed |-> FALSE], c, 0, n)
           c1 == [c EXCEPT !.pc = "await", !.chunk = w.ids,
                           !.chunkFailed = w.failed,
                           !.chunkSizes = Append(@, n)]
       IN  /\ Commit(w.heap, w.univ, c1)
           /\ engine' = w.engine
           /\ UNCHANGED statistics
           /\ last' = [NoLast EXCEPT !.op = "createUniverses:await"]
  ELSE /\ Commit(h, univ, IdleCall)
       /\ UNCHANGED engine
       /\ statistics' =
            [statistics EXCEPT
               !.totalCreated = @ + c.count,
               !.peakConcurrentUniverses = Max(@, Cardinality(tracked'))]
       /\ last' = [NoLast EXCEPT !.op = "createUniverses",
                                 !.id = c.batchId, !.count = c.count,
                                 !.universes = c.universes,
                                 !.chunkSizes = c.chunkSizes,
                                 !.events = <<Event("batch:created")>>]

\* createUniverses(count, config) up to its first await, its return or throw,
\* on an engine that rejects the creates of the indices in rejects
CreateUniversesOn(count, init, rejects) ==
  /\ CanCall
  /\ UNCHANGED <<tracked, batchSize, queueVars, batchOpsCompleted, snapCount,
                 opsCompleted>>
  /\ IF CountInvalid(count)
     THEN /\ last' = [NoLast EXCEPT !.op = "createUniverses",
                                    !.outcome = "InvalidArgument",
                                    !.events = <<Event("batch:error")>>]
          /\ UNCHANGED <<heap, univ, engine, call, batches, statistics>>
     ELSE /\ Len(univ) + count <= MaxIds
          /\ batches < MaxBatches
          /\ batches' = batches + 1
          /\ LET a == Alloc(heap, init)
             IN  Advance(a.heap,
                         [IdleCall EXCEPT !.pc = "run", !.count = count,
                                          !.bs = Min(batchSize, count),
                                          !.batchId = batches + 1,
                                          !.rejects = rejects,
                                          !.initialState = a.ref])

\* createUniverses on HeliosEngine
CreateUniverses(count, init) == CreateUniversesOn(count, init, {})

\* await Promise.all(batchPromises) settles.  Resolved: the chunk is pushed
\* on universes and tracked, i += batchSize, and the loop goes on.  Rejected
\* (an item of the chunk rejected): the catch block emits 'batch:error' and
\* rethrows; the universes of the chunk stay in the engine, untracked.
CreateUniversesResume ==
  /\ call.pc = "await"
  /\ Len(call.chunkSizes) <= MaxChunks
  /\ UNCHANGED <<batchSize, queueVars, batchOpsCompleted, snapCount, batches,
                 opsCompleted>>
  /\ IF call.chunkFailed
     THEN /\ Commit(heap, univ, IdleCall)
          /\ last' = [NoLast EXCEPT !.op = "createUniverses",
                                    !.outcome = "CreateFailed",
                                    !.count = call.count,
                                    !.universes = call.universes,
                                    !.events = <<Event("batch:error")>>]
          /\ UNCHANGED <<engine, tracked, statistics>>
     ELSE /\ tracked' = tracked \cup SeqSet(call.chunk)
          /\ Advance(heap, [call EXCEPT !.universes = @ \o call.chunk,
                                        !.chunk = <<>>, !.i = @ + call.bs])

\* ----------------------------------------- UniverseManager.performOperation
\* a failed lookup that leaves an entry for the id in the manager's map
FailRegisters(op, id, outcome) ==
  /\ last' = [NoLast EXCEPT !.op = op, !.id = id, !.outcome = outcome]
  /\ tracked' = tracked \cup {id}
  /\ UNCHANGED <<heap, univ, engine, batchSize, mgr, batchOpsCompleted,
                 snapCount, batches, opsCompleted, call>>

\* a call that throws: performOperation before its switch when the id is not
\* in the manager's map; the throw is outside the try block and emits nothing
Fail(op, id, outcome) ==
  /\ last' = [NoLast EXCEPT !.op = op, !.id = id, !.outcome = outcome]
  /\ UNCHANGED <<heap, univ, engine, tracked, batchSize, mgr,
                 batchOpsCompleted, snapCount, batches, opsCompleted, call>>

\* a throw inside performOperation's try block: the catch block emits
\* 'operation:error' and rethrows
Throw(op, id, outcome) ==
  /\ last' = [NoLast EXCEPT !.op = op, !.id = id, !.outcome = outcome,
                            !.events = <<Event("operation:error")>>]
  /\ UNCHANGED <<heap, univ, engine, tracked, batchSize, mgr,
                 batchOpsCompleted, snapCount, batches, opsCompleted, call>>

\* what performOperation emits after a case of its switch returned
Completed == <<Event("operation:completed")>>

\* case 'snapshot': createSnapshot(universe, params)
Snapshot(id) ==
  /\ CanCall
  /\ IF id \notin tracked THEN Fail("snapshot", id, "NotFound")
     ELSE /\ opsCompleted < MaxOperations
          /\ LET r == createSnapshot(heap, univ, id, snapCount + 1)
             IN  /\ Commit(r.heap, r.univ, call)
          /\ snapCount' = snapCount + 1
          /\ opsCompleted' = opsCompleted + 1
          /\ last' = [NoLast EXCEPT !.op = "snapshot", !.id = id,
                                    !.newId = snapCount + 1,
                                    !.events = Completed]
          /\ UNCHANGED <<engine, tracked, batchSize, mgr, batchOpsCompleted,
                         batches>>

\* case 'clone': cloneUniverse(universe, params): universe.clone(...), the
\* clone is registered in the manager's map only; statistics.totalCreated++
Clone(id) ==
  /\ CanCall
  /\ IF id \notin tracked THEN Fail("clone", id, "NotFound")
     ELSE /\ Len(univ) < MaxIds
          /\ opsCompleted < MaxOperations
          /\ LET r == clone(heap, univ, id)
             IN  /\ Commit(r.heap, r.univ, call)
                 /\ tracked' = tracked \cup {r.id}
                 /\ last' = [NoLast EXCEPT !.op = "clone", !.id = id,
                                           !.newId = r.id,
                                           !.events = Completed]
          /\ statistics' = [statistics EXCEPT !.totalCreated = @ + 1]
          /\ opsCompleted' = opsCompleted + 1
          /\ UNCHANGED <<engine, batchSize, queueVars, batchOpsCompleted,
                         snapCount, batches>>

\* case 'update': updateUniverse(universe, params) with params.updates an
\* object: universe.updateState(updates)
Update(id, updates) ==
  /\ CanCall
  /\ IF id \notin tracked THEN Fail("update", id, "NotFound")
     ELSE /\ opsCompleted < MaxOperations
          /\ LET r == updateState(heap, univ, id, updates)
             IN  /\ Commit(r.heap, r.univ, call)
                 /\ last' = [NoLast EXCEPT !.op = "update", !.id = id,
                                           !.cowTriggered = r.cowTriggered,
                                           !.sizeChange = r.sizeChange,
                                           !.events = Completed]
          /\ opsCompleted' = opsCompleted + 1
          /\ UNCHANGED <<engine, tracked, batchSize, mgr, batchOpsCompleted,
                         snapCount, batches>>

\* branchUniverse with the modifications applied to the source universe
branchUniverseOnSource(h, us, id, hasMods, mods) ==
  LET c == clone(h, us, id)
  IN  IF hasMods
      THEN LET r == updateState(c.heap, c.univ, id, mods)
           IN  [heap |-> r.heap, univ |-> r.univ, id |-> c.id]
      ELSE c

\* UniverseManager.branchUniverse: universe.clone(...), then
\* branch.updateState(params.modifications) if modifications are given
branchUniverse(h, us, id, hasMods, mods) ==
  LET c == clone(h, us, id)
  IN  IF hasMods
      THEN LET r == updateState(c.heap, c.univ, c.id, mods)
           IN  [heap |-> r.heap, univ |-> r.univ, id |-> c.id]
      ELSE c

\* case 'branch': the branch is registered in the manager's map only;
\* statistics.totalCreated++
Branch(id, hasMods, mods) ==
  /\ CanCall
  /\ IF id \notin tracked THEN Fail("branch", id, "NotFound")
     ELSE /\ Len(univ) < MaxIds
          /\ opsCompleted < MaxOperations
          /\ LET r == branchUniverse(heap, univ, id, hasMods, mods)
             IN  /\ Commit(r.heap, r.univ, call)
                 /\ tracked' = tracked \cup {r.id}
                 /\ last' = [NoLast EXCEPT !.op = "branch", !.id = id,
                                           !.newId = r.id,
                                           !.events = Completed]
          /\ statistics' = [statistics EXCEPT !.totalCreated = @ + 1]
          /\ opsCompleted' = opsCompleted + 1
          /\ UNCHANGED <<engine, batchSize, queueVars, batchOpsCompleted,
                         snapCount, batches>>

\* the validation that lets an empty sourceIds list through
MergeCheckNoEmpty(trk, sourceIds) ==
  IF \E k \in DOMAIN sourceIds : sourceIds[k] \notin trk THEN "NotFound"
  ELSE "ok"

\* mergeUniverse lines 348-358: an empty sourceIds list is rejected, then every
\* source id is looked up in the manager's map and the first miss throws
MergeCheck(trk, sourceIds) ==
  IF Len(sourceIds) = 0 THEN "InvalidArgument"
  ELSE IF \E k \in DOMAIN sourceIds : sourceIds[k] \notin trk THEN "NotFound"
  ELSE "ok"

\* the reducer with its operands swapped: { ...source.state, ...merged }
MergeStepKeep(h, merged, src) == ObjSpread(h, src, h[merged])

\* the reducer: { ...merged, ...source.state }
MergeStep(h, merged, src) == ObjSpread(h, merged, h[src])

\* sourceUniverses.reduce(..., { ...targetUniverse.state }) from source k on
RECURSIVE MergeReduce(_, _, _, _, _)
MergeReduce(h, us, merged, sourceIds, k) ==
  IF k > Len(sourceIds) THEN [heap |-> h, ref |-> merged]
  ELSE LET s == MergeStep(h, merged, us[sourceIds[k]].state)
       IN  MergeReduce(s.heap, us, s.ref, sourceIds, k + 1)

\* mergeUniverse lines 360-365: the merged state, then
\* targetUniverse.updateState(mergedState)
mergeUniverse(h, us, target, sourceIds) ==
  LET init == ObjSpread(h, us[target].state, EmptyObj)
      m == MergeReduce(init.heap, us, init.ref, sourceIds, 1)
  IN  updateState(m.heap, us, target, m.heap[m.ref])

\* case 'merge'
Merge(id, sourceIds) ==
  /\ CanCall
  /\ IF id \notin tracked \/ MergeCheck(tracked, sourceIds) # "ok"
     THEN /\ last' = [NoLast EXCEPT
                       !.op = "merge", !.id = id, !.sourceIds = sourceIds,
                       !.outcome = IF id \notin tracked THEN "NotFound"
                                   ELSE MergeCheck(tracked, sourceIds),
                       !.events = IF id \notin tracked THEN <<>>
                                  ELSE <<Event("operation:error")>>]
          /\ UNCHANGED <<heap, univ, engine, tracked, batchSize, mgr,
                         batchOpsCompleted, snapCount, batches, opsCompleted,
                         call>>
     ELSE /\ opsCompleted < MaxOperations
          /\ LET r == mergeUniverse(heap, univ, id, sourceIds)
             IN  /\ Commit(r.heap, r.univ, call)
                 /\ last' = [NoLast EXCEPT !.op = "merge", !.id = id,
                                            !.sourceIds = sourceIds,
                                            !.events = Completed]
          /\ opsCompleted' = opsCompleted + 1
          /\ UNCHANGED <<engine, tracked, batchSize, mgr, batchOpsCompleted,
                         snapCount, batches>>

\* ------------------------------------- UniverseManager.processBatchOperation
\* an id no universe ever has
UnknownId == MaxIds + 1

\* one entry of the operations list: { universeId, operation, params }, with
\* params.updates for an update and params.sourceIds for a merge
Item(id, operation, updates, sourceIds) ==
  [universeId |-> id, operation |-> operation, updates |-> updates,
   sourceIds |-> sourceIds]

\* the entries a caller may put in the list: updates of universe 1 on either
\* key, an update of universe 2, an update without params.updates, a snapshot
\* and a clone of universe 1, a merge of universe 2 into universe 1, and a
\* snapshot of an unknown id
RunItems ==
  {Item(1, "update", JsObject(o), <<>>) : o \in Payloads}
    \cup {Item(2, "update", JsObject(Px), <<>>) : Px \in {o \in Payloads : DOMAIN o = {"x"}}}
    \cup {Item(1, "update", Undefined, <<>>),
          Item(1, "snapshot", Undefined, <<>>),
          Item(1, "clone", Undefined, <<>>),
          Item(1, "merge", Undefined, <<2>>),
          Item(UnknownId, "snapshot", Undefined, <<>>)}

\* if (!updates || typeof updates !== 'object') throw
UpdatesRejected(v) == Falsy(v) \/ ~TypeofObject(v)

\* performOperation(universeId, operation, params) from its start to its
\* await: the lookup in the manager's map, then the whole body of
\* createSnapshot / cloneUniverse / updateUniverse / mergeUniverse, none of
\* which awaits.  w: the store it runs on; outcome: "ok" or the Error thrown;
\* thrownInTry: the Error was thrown inside the try block.
performOperation(w, op) ==
  IF op.universeId \notin w.tracked
  THEN [w |-> w, outcome |-> "NotFound", thrownInTry |-> FALSE]
  ELSE CASE op.operation = "snapshot" ->
              LET r == createSnapshot(w.heap, w.univ, op.universeId,
                                      w.snapCount + 1)
              IN  [w |-> [w EXCEPT !.heap = r.heap, !.univ = r.univ,
                                   !.snapCount = @ + 1],
                   outcome |-> "ok", thrownInTry |-> FALSE]
         [] op.operation = "clone" ->
              LET r == clone(w.heap, w.univ, op.universeId)
              IN  [w |-> [w EXCEPT !.heap = r.heap, !.univ = r.univ,
                                   !.tracked = @ \cup {r.id}],
                   outcome |-> "ok", thrownInTry |-> FALSE]
         [] op.operation = "update" ->
              IF UpdatesRejected(op.updates)
              THEN [w |-> w, outcome |-> "InvalidUpdate",
                    thrownInTry |-> TRUE]
              ELSE LET r == updateState(w.heap, w.univ, op.universeId,
                                        op.updates.props)
                   IN  [w |-> [w EXCEPT !.heap = r.heap, !.univ = r.univ],
                        outcome |-> "ok", thrownInTry |-> FALSE]
         [] op.operation = "merge" ->
              IF MergeCheck(w.tracked, op.sourceIds) # "ok"
              THEN [w |-> w, outcome |-> MergeCheck(w.tracked, op.sourceIds),
                    thrownInTry |-> TRUE]
              ELSE LET r == mergeUniverse(w.heap, w.univ, op.universeId,
                                          op.sourceIds)
                   IN  [w |-> [w EXCEPT !.heap = r.heap, !.univ = r.univ],
                        outcome |-> "ok", thrownInTry |-> FALSE]

\* what a caller can observe of the store: every universe's state, parent,
\* children and snapshot states, and the ids the manager tracks
Observe(h, us, trk) ==
  [states |-> [u \in DOMAIN us |-> h[us[u].state]],
   parents |-> [u \in DOMAIN us |-> us[u].parentId],
   children |-> [u \in DOMAIN us |-> us[u].children],
   snapshots |-> [u \in DOMAIN us |->
                    [j \in DOMAIN us[u].snapshots |->
                       h[us[u].snapshots[j].state]]],
   tracked |-> trk]

\* processBatchOperation(operations) is called with a list of n entries:
\* operations.map starts.  One call is followed in each behaviour.
ProcessBatchOperation(n) ==
  /\ CanCall
  /\ batchOpsCompleted = 0
  /\ call' = [IdleCall EXCEPT !.pc = "map", !.count = n,
                              !.start = Observe(heap, univ, tracked)]
  /\ last' = [NoLast EXCEPT !.op = "processBatch:map"]
  /\ UNCHANGED <<heap, univ, engine, tracked, batchSize, mgr,
                 batchOpsCompleted, snapCount, batches, opsCompleted>>

\* the 1-based failure position
FailureEntryOneBased(error, k) == [error |-> error, index |-> k]

\* catch (error) { return { error: error.message, index } } for the k-th entry
FailureEntry(error, k) == [error |-> error, index |-> k - 1]

\* the map callback for the next entry op: performOperation runs up to its
\* await and the callback is suspended on it
PerformItem(op) ==
  /\ call.pc = "map"
  /\ Len(call.ops) < call.count
  /\ op.operation = "clone" => Len(univ) < MaxIds
  /\ LET r == performOperation([heap |-> heap, univ |-> univ,
                                tracked |-> tracked, snapCount |-> snapCount],
                               op)
     IN  /\ Commit(r.w.heap, r.w.univ,
                   [call EXCEPT !.ops = Append(@, op),
                                !.outcomes = Append(@, r.outcome),
                                !.emitted =
                                   @ \o (IF r.outcome = "ok" THEN Completed
                                         ELSE IF r.thrownInTry
                                         THEN <<Event("operation:error")>>
                                         ELSE <<>>)])
         /\ tracked' = r.w.tracked
         /\ snapCount' = r.w.snapCount
         /\ statistics' =
              [statistics EXCEPT
                 !.totalCreated = @ + Cardinality(r.w.tracked \ tracked)]
  /\ last' = [NoLast EXCEPT !.op = "processBatch:item"]
  /\ UNCHANGED <<engine, batchSize, queueVars, batchOpsCompleted, batches,
                 opsCompleted>>

\* The deadline the caller set for the batch passes while operations.map is
\* starting the callbacks, after Len(call.ops) of them.  processBatchOperation
\* takes no deadline and reads no clock but for its timing metadata: the
\* step changes nothing the call reads.
DeadlineExpires ==
  /\ call.pc = "map"
  /\ ~call.expired
  /\ call' = [call EXCEPT !.expired = TRUE,
                          !.startedAtExpiry = Len(call.ops)]
  /\ UNCHANGED <<heap, univ, engine, tracked, batchSize, mgr, snapCount,
                 batches, opsCompleted, batchOpsCompleted, last>>

\* every callback has been started; the awaits resume: each operation that
\* did not throw is counted, Promise.all resolves with one result per entry,
\* in the order of the entries, batchOperationsCompleted++ and
\* 'batch:processed' is emitted
ProcessBatchSettle ==
  /\ call.pc = "map"
  /\ Len(call.ops) = call.count
  /\ opsCompleted' =
       opsCompleted
         + Cardinality({k \in DOMAIN call.outcomes : call.outcomes[k] = "ok"})
  /\ batchOpsCompleted' = batchOpsCompleted + 1
  /\ last' = [NoLast EXCEPT
                !.op = "processBatch",
                !.count = call.count,
                !.ops = call.ops,
                !.results =
                   [k \in DOMAIN call.ops |->
                      IF call.outcomes[k] = "ok"
                      THEN [operation |-> call.ops[k].operation,
                            universeId |-> call.ops[k].universeId]
                      ELSE FailureEntry(call.outcomes[k], k)],
                !.events = call.emitted \o <<Event("batch:processed")>>]
  /\ call' = IdleCall
  /\ UNCHANGED <<heap, univ, engine, tracked, batchSize, mgr, snapCount,
                 batches>>

\* ------------------------------------------ the interval queue processor
\* the operations a caller may queue: an update of universe 1 and a snapshot
\* of an unknown id
QueueItems ==
  {Item(1, "update", JsObject(Px2), <<>>),
   Item(UnknownId, "snapshot", Undefined, <<>>)}

\* manager.operationQueue.push(op) by a caller; nothing in UniverseManager
\* itself pushes on the queue
Enqueue(op) ==
  /\ Len(operationQueue) < MaxQueueLen
  /\ operationQueue' = Append(operationQueue, op)
  /\ last' = [NoLast EXCEPT !.op = "enqueue"]
  /\ UNCHANGED <<heap, univ, engine, tracked, batchSize, statistics,
                 isProcessing, batchOpsCompleted, snapCount, batches,
                 opsCompleted, call>>

\* the splice and the call of processBatchOperation, up to operations.map:
\* sets operationQueue', isProcessing', call' and last'
StartQueuedBatch ==
  LET n == Min(cfgMaxConcurrentOperations, Len(operationQueue))
  IN  /\ batchOpsCompleted < MaxQueueBatches
      /\ isProcessing' = TRUE
      /\ operationQueue' = SubSeq(operationQueue, n + 1, Len(operationQueue))
      /\ call' = [IdleCall EXCEPT
                    !.pc = "map", !.count = n,
                    !.batch = SubSeq(operationQueue, 1, n),
                    !.start = Observe(heap, univ, tracked)]
      /\ last' = [NoLast EXCEPT !.op = "queue:tick", !.count = n]

\* a processOperationQueue that does not look at isProcessing
ProcessOperationQueueNoFlag ==
  /\ call.pc = "idle" \/ isProcessing
  /\ IF operationQueue = <<>>
     THEN /\ last' = [NoLast EXCEPT !.op = "queue:tick"]
          /\ UNCHANGED <<operationQueue, isProcessing, call>>
     ELSE StartQueuedBatch
  /\ UNCHANGED <<heap, univ, engine, tracked, batchSize, statistics,
                 batchOpsCompleted, snapCount, batches, opsCompleted>>

\* processOperationQueue(), called by the interval timer: it returns at once
\* while a batch is being processed or when the queue is empty; otherwise it
\* sets isProcessing, splices the first config.maxConcurrentOperations
\* entries off the queue and calls processBatchOperation with them.  The
\* timer fires between calls, or while the batch of an earlier tick is
\* awaited.
ProcessOperationQueue ==
  /\ call.pc = "idle" \/ isProcessing
  /\ IF isProcessing \/ operationQueue = <<>>
     THEN /\ last' = [NoLast EXCEPT !.op = "queue:tick"]
          /\ UNCHANGED <<operationQueue, isProcessing, call>>
     ELSE StartQueuedBatch
  /\ UNCHANGED <<heap, univ, engine, tracked, batchSize, statistics,
                 batchOpsCompleted, snapCount, batches, opsCompleted>>

\* the map callback for the next entry of the spliced batch
PerformQueued ==
  /\ call.pc = "map"
  /\ Len(call.ops) < Len(call.batch)
  /\ PerformItem(call.batch[Len(call.ops) + 1])

\* finally { this.isProcessing = false }, once processBatchOperation has
\* returned or thrown
ProcessQueueFinally ==
  /\ isProcessing
  /\ call.pc # "map"
  /\ isProcessing' = FALSE
  /\ last' = [NoLast EXCEPT !.op = "queue:done"]
  /\ UNCHANGED <<heap, univ, engine, tracked, batchSize, statistics,
                 operationQueue, batchOpsCompleted, snapCount, batches,
                 opsCompleted, call>>

\* ------------------------------------- operations on any params the caller
\* case 'update' with any value as params.updates: updateUniverse throws
\* 'Updates parameter must be an object' when the value is falsy or typeof
\* does not give 'object'; every other value goes to universe.updateState,
\* which spreads it
UpdateValue(id, v) ==
  IF id \in tracked /\ UpdatesRejected(v)
  THEN CanCall /\ Throw("update", id, "InvalidUpdate")
  ELSE Update(id, v.props)

\* case 'branch' with any value as params.modifications: the value is applied
\* with branch.updateState when it is truthy, and is not validated
BranchValue(id, v) == Branch(id, ~Falsy(v), v.props)

\* ------------------------------------------------------- read queries
\* the ids of S in the order the manager's Map iterates them: insertion
\* order, which is the order of the ids
RECURSIVE InOrder(_)
InOrder(S) ==
  IF S = {} THEN <<>>
  ELSE LET m == CHOOSE x \in S : \A y \in S : x <= y
       IN  <<m>> \o InOrder(S \ {m})

\* findSiblings that leaves the universe itself in the list
findSiblingsWithSelf(us, trk, id) ==
  IF us[id].parentId = Null THEN <<>>
  ELSE InOrder({u \in trk : us[u].parentId = us[id].parentId})

\* findSiblings(universe): the tracked ids other than the universe's whose
\* universe has the same parentId; [] without a parentId
findSiblings(us, trk, id) ==
  IF us[id].parentId = Null THEN <<>>
  ELSE InOrder({u \in trk : us[u].parentId = us[id].parentId /\ u # id})

\* countDescendants(universe): children.length, plus countDescendants of
\* every child that is tracked
RECURSIVE countDescendants(_, _, _)
RECURSIVE CountBelow(_, _, _, _)
CountBelow(us, trk, children, k) ==
  IF k > Len(children) THEN 0
  ELSE (IF children[k] \in trk THEN countDescendants(us, trk, children[k])
        ELSE 0)
       + CountBelow(us, trk, children, k + 1)

countDescendants(us, trk, id) ==
  Len(us[id].children) + CountBelow(us, trk, us[id].children, 1)

\* one entry of the issues list
ParentIssue == [kind |-> "Parent universe not found", id |-> Null]
ChildIssue(c) == [kind |-> "Child universe not found", id |-> c]

\* the entries for the children from k on that are not tracked
RECURSIVE ChildIssues(_, _, _)
ChildIssues(trk, children, k) ==
  IF k > Len(children) THEN <<>>
  ELSE (IF children[k] \in trk THEN <<>> ELSE <<ChildIssue(children[k])>>)
       \o ChildIssues(trk, children, k + 1)

\* checkIntegrity without the look at the parent
checkIntegrityChildrenOnly(us, trk, id) ==
  LET issues == ChildIssues(trk, us[id].children, 1)
  IN  [healthy |-> issues = <<>>, issues |-> issues]

\* checkIntegrity(universe): 'Parent universe not found' when parentId is set
\* and not tracked, then one entry per child id that is not tracked
checkIntegrity(us, trk, id) ==
  LET issues ==
        (IF us[id].parentId # Null /\ us[id].parentId \notin trk
         THEN <<ParentIssue>> ELSE <<>>)
          \o ChildIssues(trk, us[id].children, 1)
  IN  [healthy |-> issues = <<>>, issues |-> issues]

\* analyzeUniverse(universe): the relationships and the integrity it reports
analyzeUniverse(us, trk, id) ==
  [siblings |-> findSiblings(us, trk, id),
   descendants |-> countDescendants(us, trk, id),
   healthy |-> checkIntegrity(us, trk, id).healthy,
   issues |-> checkIntegrity(us, trk, id).issues]

\* an analysis that drops from children the ids that are not tracked
AnalyzePruning(id) ==
  /\ CanCall
  /\ IF id \notin tracked THEN Fail("analyze", id, "NotFound")
     ELSE /\ opsCompleted < MaxOperations + MaxAnalyses
          /\ opsCompleted' = opsCompleted + 1
          /\ univ' = [univ EXCEPT
                        ![id].children =
                           SelectSeq(@, LAMBDA c : c \in tracked)]
          /\ last' = [NoLast EXCEPT
                        !.op = "analyze", !.id = id,
                        !.analysis = analyzeUniverse(univ, tracked, id),
                        !.events = Completed]
          /\ UNCHANGED <<heap, engine, tracked, batchSize, mgr,
                         batchOpsCompleted, snapCount, batches, call>>

\* case 'analyze': the analysis is returned, the operation is counted and
\* 'operation:completed' is emitted
Analyze(id) ==
  /\ CanCall
  /\ IF id \notin tracked THEN Fail("analyze", id, "NotFound")
     ELSE /\ opsCompleted < MaxOperations + MaxAnalyses
          /\ opsCompleted' = opsCompleted + 1
          /\ last' = [NoLast EXCEPT
                        !.op = "analyze", !.id = id,
                        !.analysis = analyzeUniverse(univ, tracked, id),
                        !.events = Completed]
          /\ UNCHANGED <<heap, univ, engine, tracked, batchSize, mgr,
                         batchOpsCompleted, snapCount, batches, call>>

\* getUniverse(id): the tracked universe, or null
GetUniverse(id) ==
  /\ CanCall
  /\ last' = [NoLast EXCEPT !.op = "get", !.id = id,
                            !.found = IF id \in tracked THEN id ELSE Null]
  /\ UNCHANGED <<heap, univ, engine, tracked, batchSize, mgr,
                 batchOpsCompleted, snapCount, batches, opsCompleted, call>>

\* getUniverseTypeDistribution(): for each metadata.type a tracked universe
\* has, the number of tracked universes of that type
getUniverseTypeDistribution(us, trk) ==
  [t \in {us[u].type : u \in trk} |->
     Cardinality({u \in trk : us[u].type = t})]

\* the age bucket of an entry: new below five minutes, active below thirty
AgeBucket(age) ==
  IF age < newAgeLimit THEN "new"
  ELSE IF age < activeAgeLimit THEN "active"
  ELSE "old"

\* an age distribution whose second test is not the else of the first
getUniverseAgeDistributionNoElse(trk, ages) ==
  [b \in {"new", "active", "old"} |->
     Cardinality({u \in trk :
                    \/ b = "new" /\ ages[u] < newAgeLimit
                    \/ b = "active" /\ ages[u] < activeAgeLimit
                    \/ b = "old" /\ ages[u] >= activeAgeLimit})]

\* getUniverseAgeDistribution(): the tracked entries counted by the bucket of
\* their age now - createdAt; ages[u] is the age of the entry of u
getUniverseAgeDistribution(trk, ages) ==
  [b \in {"new", "active", "old"} |->
     Cardinality({u \in trk : AgeBucket(ages[u]) = b})]

\* the complexity bucket of a state: complexity is the serialized length
\* divided by 100; simple below 10, moderate below 100
ComplexityBucket(o) ==
  IF JsonLength(o) < 10 * 100 THEN "simple"
  ELSE IF JsonLength(o) < 100 * 100 THEN "moderate"
  ELSE "complex"

\* getUniverseComplexityDistribution(): the tracked universes counted by the
\* complexity bucket of their state
getUniverseComplexityDistribution(h, us, trk) ==
  [b \in {"simple", "moderate", "complex"} |->
     Cardinality({u \in trk : ComplexityBucket(h[us[u].state]) = b})]

\* getStatistics(): current.activeUniverses and the three distributions;
\* ages[u] is what Date.now() - createdAt gives for the entry of u
GetStatistics(ages) ==
  /\ CanCall
  /\ last' = [NoLast EXCEPT
                !.op = "statistics",
                !.stats = [activeUniverses |-> Cardinality(tracked),
                           byType |-> getUniverseTypeDistribution(univ, tracked),
                           byAge |-> getUniverseAgeDistribution(tracked, ages),
                           byComplexity |->
                             getUniverseComplexityDistribution(heap, univ,
                                                               tracked)]]
  /\ UNCHANGED <<heap, univ, engine, tracked, batchSize, mgr,
                 batchOpsCompleted, snapCount, batches, opsCompleted, call>>

\* ------------------------------------------------- UniverseManager.cleanup
\* a cleanup that also deletes the children of the entries it deletes
CleanupCascade(k) ==
  /\ CanCall
  /\ LET old == {u \in tracked : u <= k}
         gone == old \cup {c \in tracked : univ[c].parentId \in old}
     IN  /\ tracked' = tracked \ gone
         /\ statistics' =
              [statistics EXCEPT !.totalDestroyed = @ + Cardinality(gone)]
         /\ last' = [NoLast EXCEPT
                       !.op = "cleanup",
                       !.id = k,
                       !.events =
                          IF gone # {}
                          THEN <<[name |-> "cleanup:completed",
                                  cleaned |-> Cardinality(gone),
                                  remaining |-> Cardinality(tracked \ gone)]>>
                          ELSE <<>>]
  /\ UNCHANGED <<heap, univ, engine, batchSize, queueVars, batchOpsCompleted,
                 snapCount, batches, opsCompleted, call>>

\* a cleanup that also takes the ids it deletes out of every children list
CleanupUnlink(k) ==
  /\ CanCall
  /\ LET old == {u \in tracked : u <= k}
     IN  /\ tracked' = tracked \ old
         /\ statistics' =
              [statistics EXCEPT !.totalDestroyed = @ + Cardinality(old)]
         /\ univ' = [u \in DOMAIN univ |->
                       [univ[u] EXCEPT
                          !.children = SelectSeq(@, LAMBDA c : c \notin old)]]
         /\ last' = [NoLast EXCEPT
                       !.op = "cleanup",
                       !.id = k,
                       !.events =
                          IF old # {}
                          THEN <<[name |-> "cleanup:completed",
                                  cleaned |-> Cardinality(old),
                                  remaining |-> Cardinality(tracked \ old)]>>
                          ELSE <<>>]
  /\ UNCHANGED <<heap, engine, batchSize, queueVars, batchOpsCompleted, snapCount,
                 batches, opsCompleted, call>>

\* a cleanup that reads this.universes.size before it deletes
CleanupStaleSize(k) ==
  /\ CanCall
  /\ LET old == {u \in tracked : u <= k}
     IN  /\ tracked' = tracked \ old
         /\ statistics' =
              [statistics EXCEPT !.totalDestroyed = @ + Cardinality(old)]
         /\ last' = [NoLast EXCEPT
                       !.op = "cleanup",
                       !.id = k,
                       !.events =
                          IF old # {}
                          THEN <<[name |-> "cleanup:completed",
                                  cleaned |-> Cardinality(old),
                                  remaining |-> Cardinality(tracked)]>>
                          ELSE <<>>]
  /\ UNCHANGED <<heap, univ, engine, batchSize, queueVars, batchOpsCompleted,
                 snapCount, batches, opsCompleted, call>>

\* cleanup() with config.autoCleanup as the constructor sets it (true), run by
\* the interval timer between calls: every entry older than
\* config.maxAge is deleted from the manager's map (the engine keeps the
\* universe).  Entries age in the order they were made, which is the order
\* of the ids: the entries older than maxAge are those of the ids up to some
\* id k (none for k = 0).  'cleanup:completed' is emitted when an entry was
\* deleted.
Cleanup(k) ==
  /\ CanCall
  /\ LET old == {u \in tracked : u <= k}
         cleanedUp == Cardinality(old)
     IN  /\ tracked' = tracked \ old
         /\ statistics' =
              [statistics EXCEPT !.totalDestroyed = @ + Cardinality(old)]
         /\ last' = [NoLast EXCEPT
                       !.op = "cleanup",
                       !.id = k,
                       !.events =
                          IF cleanedUp > 0
                          THEN <<[name |-> "cleanup:completed",
                                  cleaned |-> cleanedUp,
                                  remaining |-> Cardinality(tracked \ old)]>>
                          ELSE <<>>]
  /\ UNCHANGED <<heap, univ, engine, batchSize, queueVars, batchOpsCompleted,
                 snapCount, batches, opsCompleted, call>>

\* cleanup() when the wall clock was set back between two registrations:
\* createdAt is Date.now() (lines 84, 263, 322), which is not monotonic, so an
\* entry registered later can hold an earlier createdAt and be older than
\* maxAge (line 510) before an entry registered earlier.  old: the live
\* entries older than maxAge, any set of them.
CleanupSkewed(old) ==
  /\ CanCall
  /\ old # {}
  /\ tracked' = tracked \ old
  /\ statistics' =
       [statistics EXCEPT !.totalDestroyed = @ + Cardinality(old)]
  /\ last' = [NoLast EXCEPT
                !.op = "cleanup",
                !.events = <<[name |-> "cleanup:completed",
                              cleaned |-> Cardinality(old),
                              remaining |-> Cardinality(tracked \ old)]>>]
  /\ UNCHANGED <<heap, univ, engine, batchSize, queueVars, batchOpsCompleted,
                 snapCount, batches, opsCompleted, call>>

\* ---------------------------------------------------------- specification
Init ==
  /\ heap = EmptyObj
  /\ univ = <<>>
  /\ engine = {}
  /\ tracked = {}
  /\ batchSize = 2
  /\ snapCount = 0
  /\ batches = 0
  /\ opsCompleted = 0
  /\ batchOpsCompleted = 0
  /\ statistics = NoStatistics
  /\ operationQueue = <<>>
  /\ isProcessing = FALSE
  /\ call = IdleCall
  /\ last = NoLast

\* A call of the manager starts in a task of its own (an HTTP handler, the
\* interval timer).  createUniverses awaits promises that are already settled,
\* so it resumes in a microtask, before the event loop starts another task:
\* no other call runs while one createUniverses call is suspended (CanCall).
Next ==
  \/ \E count \in Counts, init \in InitialStates : CreateUniverses(count, init)
  \/ CreateUniversesResume
  \/ \E id \in KnownIds(univ) : Snapshot(id)
  \/ \E id \in KnownIds(univ) : Clone(id)
  \/ \E id \in KnownIds(univ), updates \in Payloads : Update(id, updates)
  \/ \E id \in KnownIds(univ), mods \in Payloads : Branch(id, TRUE, mods)
  \/ \E id \in KnownIds(univ) : Branch(id, FALSE, EmptyObj)
  \/ \E id \in KnownIds(univ), sourceIds \in SourceLists(KnownIds(univ)) :
       Merge(id, sourceIds)

Spec == Init /\ [][Next]_vars

\* createUniverses under every configured chunk size, with clones and updates
\* of the universes it made
InitBatch ==
  /\ heap = EmptyObj
  /\ univ = <<>>
  /\ engine = {}
  /\ tracked = {}
  /\ batchSize \in BatchSizes
  /\ snapCount = 0
  /\ batches = 0
  /\ opsCompleted = 0
  /\ batchOpsCompleted = 0
  /\ statistics = NoStatistics
  /\ operationQueue = <<>>
  /\ isProcessing = FALSE
  /\ call = IdleCall
  /\ last = NoLast

NextBatch ==
  \/ \E count \in Counts, init \in InitialStates : CreateUniverses(count, init)
  \/ CreateUniversesResume
  \/ \E id \in KnownIds(univ) : Clone(id)
  \/ \E id \in KnownIds(univ), updates \in Payloads : Update(id, updates)

SpecBatch == InitBatch /\ [][NextBatch]_vars

\* createUniverses under any integer config.batchSize
InitAnyBatch ==
  /\ heap = EmptyObj
  /\ univ = <<>>
  /\ engine = {}
  /\ tracked = {}
  /\ batchSize \in AnyBatchSizes
  /\ snapCount = 0
  /\ batches = 0
  /\ opsCompleted = 0
  /\ batchOpsCompleted = 0
  /\ statistics = NoStatistics
  /\ operationQueue = <<>>
  /\ isProcessing = FALSE
  /\ call = IdleCall
  /\ last = NoLast

SpecAnyBatch == InitAnyBatch /\ [][NextBatch]_vars

\* createUniverses on an engine whose createUniverse can reject, under every
\* configured chunk size
NextFault ==
  \/ \E count \in Counts, init \in InitialStates :
       \E rejects \in RejectSets(count) :
         CreateUniversesOn(count, init, rejects)
  \/ CreateUniversesResume
  \/ \E id \in KnownIds(univ), updates \in Payloads : Update(id, updates)

SpecFault == InitBatch /\ [][NextFault]_vars

\* update and branch with every kind of value as updates / modifications
NextArgs ==
  \/ \E count \in Counts, init \in InitialStates : CreateUniverses(count, init)
  \/ CreateUniversesResume
  \/ \E id \in KnownIds(univ), v \in JsValues : UpdateValue(id, v)
  \/ \E id \in KnownIds(univ), v \in JsValues : BranchValue(id, v)
  \/ \E id \in KnownIds(univ) : Clone(id)

SpecArgs == Init /\ [][NextArgs]_vars

\* the single operations with the timer's cleanup running between calls
NextEvict ==
  \/ \E count \in Counts, init \in InitialStates : CreateUniverses(count, init)
  \/ CreateUniversesResume
  \/ \E k \in tracked : Cleanup(k)
  \/ \E id \in KnownIds(univ) : Snapshot(id)
  \/ \E id \in KnownIds(univ) : Clone(id)
  \/ \E id \in KnownIds(univ) : Update(id, Px2)
  \/ \E id \in KnownIds(univ) : Branch(id, TRUE, Px2)
  \/ \E id, a \in KnownIds(univ) : Merge(id, <<a>>)

SpecEvict == Init /\ [][NextEvict]_vars

\* snapshots, clones and updates of universes whose initial state holds a
\* nested object
NextNested ==
  \/ \E count \in Counts, init \in NestedStates : CreateUniverses(count, init)
  \/ CreateUniversesResume
  \/ \E id \in KnownIds(univ) : Snapshot(id)
  \/ \E id \in KnownIds(univ) : Clone(id)
  \/ \E id \in KnownIds(univ), updates \in Payloads : Update(id, updates)

SpecNested == Init /\ [][NextNested]_vars

\* the timer's cleanup at any moment between creations, clones and snapshots,
\* whether or not an entry is older than maxAge
NextSweep ==
  \/ \E count \in Counts, init \in InitialStates : CreateUniverses(count, init)
  \/ CreateUniversesResume
  \/ \E k \in 0..MaxIds : Cleanup(k)
  \/ \E id \in KnownIds(univ) : Snapshot(id)
  \/ \E id \in KnownIds(univ) : Clone(id)

SpecSweep == Init /\ [][NextSweep]_vars

\* the read queries between creations, clones, snapshots and cleanups, the
\* cleanups with a wall clock that may have been set back
NextQuery ==
  \/ \E count \in Counts, init \in InitialStates : CreateUniverses(count, init)
  \/ CreateUniversesResume
  \/ \E old \in SUBSET tracked : CleanupSkewed(old)
  \/ \E id \in KnownIds(univ) : Snapshot(id)
  \/ \E id \in KnownIds(univ) : Clone(id)
  \/ \E id \in KnownIds(univ) : Analyze(id)
  \/ \E id \in KnownIds(univ) : GetUniverse(id)
  \/ GetStatistics([u \in tracked |-> 0])

SpecQuery == Init /\ [][NextQuery]_vars

\* every operation that constructs a universe or writes a state: creation,
\* cloning, branching with modifications, updateState and merge
NextSize ==
  \/ \E count \in Counts, init \in InitialStates : CreateUniverses(count, init)
  \/ CreateUniversesResume
  \/ \E id \in KnownIds(univ) : Clone(id)
  \/ \E id \in KnownIds(univ), updates \in Payloads : Update(id, updates)
  \/ \E id \in KnownIds(univ), mods \in Payloads : Branch(id, TRUE, mods)
  \/ \E id, a \in KnownIds(univ) : Merge(id, <<a>>)

SpecSize == Init /\ [][NextSize]_vars

\* creation, cloning, branching and sweeps, with getStatistics called
\* at any time, whatever the ages of the entries
NextStats ==
  \/ \E count \in Counts, init \in InitialStates : CreateUniverses(count, init)
  \/ CreateUniversesResume
  \/ \E k \in tracked : Cleanup(k)
  \/ \E id \in KnownIds(univ) : Clone(id)
  \/ \E id \in KnownIds(univ) : Branch(id, TRUE, Px2)
  \/ \E ages \in [tracked -> AgeSamples] : GetStatistics(ages)

SpecStats == Init /\ [][NextStats]_vars


\* processBatchOperation on the universes a createUniverses call made
NextRun ==
  \/ \E count \in Counts, init \in InitialStates : CreateUniverses(count, init)
  \/ CreateUniversesResume
  \/ \E n \in 0..MaxOpsLen : ProcessBatchOperation(n)
  \/ \E op \in RunItems : PerformItem(op)
  \/ ProcessBatchSettle

SpecRun == Init /\ [][NextRun]_vars

\* the interval processor on a queue that callers fill
NextQueue ==
  \/ \E init \in InitialStates : CreateUniverses(1, init)
  \/ CreateUniversesResume
  \/ \E op \in QueueItems : Enqueue(op)
  \/ ProcessOperationQueue
  \/ PerformQueued
  \/ ProcessBatchSettle
  \/ ProcessQueueFinally

SpecQueue == Init /\ [][NextQueue]_vars

\* processBatchOperation with a caller's deadline that can pass at any moment
\* of the call
NextDeadline ==
  \/ \E count \in Counts, init \in InitialStates : CreateUniverses(count, init)
  \/ CreateUniversesResume
  \/ \E n \in 0..MaxOpsLen : ProcessBatchOperation(n)
  \/ \E op \in RunItems : PerformItem(op)
  \/ DeadlineExpires
  \/ ProcessBatchSettle

SpecDeadline == Init /\ [][NextDeadline]_vars

\* ------------------------------------------------------------ properties
\* the object a universe's state refers to after the step
StateOfNext(u) == heap'[univ'[u].state]
\* the object a snapshot's state refers to, before and after the step
SnapState(u, j) == heap[univ[u].snapshots[j].state]
SnapStateNext(u, j) == heap'[univ'[u].snapshots[j].state]

\* C1: COW isolation.  A step that changes the state of a universe that has a
\* parent (an updateState on a clone) leaves the state of its parent as it
\* was; and updateState(B, {x: 2}) on a clone B of A gives B.state.x = 2 and
\* leaves A.state as it was (x = 1 when A was created with {x: 1}).
C1_CowIsolation ==
  [][\A c \in DOMAIN univ :
       LET p == univ[c].parentId
       IN  p # Null =>
             /\ StateOfNext(c) # StateOf(c) => StateOfNext(p) = StateOf(p)
             /\ (Update(c, Px2) /\ c \in tracked) =>
                  /\ StateOfNext(c)["x"] = 2
                  /\ StateOfNext(p) = StateOf(p)]_vars

\* C1 witness: a clone was just updated to x = 2 and its parent still has x = 1
C1_Witness ==
  /\ last.op = "update"
  /\ last.id \in DOMAIN univ
  /\ univ[last.id].parentId # Null
  /\ StateOf(last.id)["x"] = 2
  /\ StateOf(univ[last.id].parentId)["x"] = 1

\* C2: mutation frame.  The state of an existing universe changes in a step
\* only if that step is a successful update or merge whose target is that
\* universe: no call changes the state of a universe other than its target,
\* and clone, branch, snapshot and createUniverses change no existing state.
C2_MutationFrame ==
  [][\A u \in DOMAIN univ :
       StateOfNext(u) # StateOf(u) =>
         /\ last'.op \in {"update", "merge"}
         /\ last'.outcome = "ok"
         /\ last'.id = u]_vars

\* C2 witness: a merge into one universe of a batch has left it different from
\* another universe of the same batch, which was not the target
C2_Witness ==
  /\ last.op = "merge"
  /\ last.outcome = "ok"
  /\ \E u \in DOMAIN univ :
       /\ u # last.id
       /\ univ[u].batchId = univ[last.id].batchId
       /\ univ[u].parentId = Null /\ univ[last.id].parentId = Null
       /\ StateOf(u) # StateOf(last.id)

\* C3: snapshot isolation.  Every snapshot that exists before a step exists
\* after it, at the same place of the same universe, with the same id and
\* the same state.
C3_SnapshotIsolation ==
  [][\A u \in DOMAIN univ : \A j \in DOMAIN univ[u].snapshots :
       /\ j \in DOMAIN univ'[u].snapshots
       /\ univ'[u].snapshots[j].id = univ[u].snapshots[j].id
       /\ SnapStateNext(u, j) = SnapState(u, j)]_vars

\* C3 witness: a universe was updated after its snapshot was taken, and the
\* snapshot still has the state of before
C3_Witness ==
  /\ last.op = "update"
  /\ last.id \in DOMAIN univ
  /\ \E j \in DOMAIN univ[last.id].snapshots :
       /\ SnapState(last.id, j) # StateOf(last.id)
       /\ "x" \in DOMAIN SnapState(last.id, j)
       /\ SnapState(last.id, j)["x"] = 1
       /\ StateOf(last.id)["x"] = 2

\* C4: the store never holds more than the configured maximum number of live
\* universes, in the engine's map and in the manager's.
C4_CapacityRespected ==
  /\ Cardinality(engine) <= cfgMaxUniverses
  /\ Cardinality(tracked) <= cfgMaxUniverses

\* a step in which createUniverses calls heliosEngine.createUniverse: the call
\* itself with a count that passes validation, or its resumption with items
\* left to create
CreateAttempt ==
  \/ \E count \in Counts, init \in InitialStates :
       ~CountInvalid(count) /\ CreateUniverses(count, init)
  \/ CreateUniversesResume /\ call.i + call.bs < call.count

\* C5: a create made when the live-universe count is at the configured
\* maximum fails with CapacityExceeded, and adds no universe to the store and
\* removes none.
C5_CreateAtCapacityFails ==
  [][(Cardinality(engine) >= cfgMaxUniverses /\ CreateAttempt) =>
       /\ last'.outcome = "CapacityExceeded"
       /\ engine' = engine
       /\ tracked' = tracked]_vars

\* C6: right after a successful clone or branch of P that made U,
\* U.parentId = P and P.children contains U's id.
C6_ChildRegistered ==
  (last.op \in {"clone", "branch"} /\ last.outcome = "ok") =>
    /\ last.newId \in DOMAIN univ
    /\ univ[last.newId].parentId = last.id
    /\ last.newId \in SeqSet(univ[last.id].children)

\* C6 witness: the second clone or branch of one universe has succeeded
C6_Witness ==
  /\ last.op \in {"clone", "branch"}
  /\ last.outcome = "ok"
  /\ Len(univ[last.id].children) = 2
  /\ univ[last.newId].parentId = last.id

\* the value of key k in the last universe of the sequence q that has k
LastWins(q, k) ==
  LET has == {i \in DOMAIN q : k \in DOMAIN StateOf(q[i])}
      top == CHOOSE i \in has : \A m \in has : m <= i
  IN  StateOf(q[top])[k]

\* C7: a successful merge(target, sources) leaves the target with, for every
\* key, the value of the last universe of [target, sources[0], ...,
\* sources[n-1]] (states of before the merge) that has the key, and with no
\* other key.
C7_MergeLastWins ==
  [][(last'.op = "merge" /\ last'.outcome = "ok") =>
       LET t == last'.id
           q == <<t>> \o last'.sourceIds
           keys == UNION {DOMAIN StateOf(q[i]) : i \in DOMAIN q}
       IN  /\ DOMAIN StateOfNext(t) = keys
           /\ \A k \in keys : StateOfNext(t)[k] = LastWins(q, k)]_vars

\* C7 witness: a merge of two sources that disagree on x has given the target
\* the later source's x
C7_Witness ==
  /\ last.op = "merge"
  /\ last.outcome = "ok"
  /\ Len(last.sourceIds) = 2
  /\ LET a == last.sourceIds[1]
         b == last.sourceIds[2]
     IN  /\ a # last.id /\ b # last.id
         /\ StateOf(a)["x"] # StateOf(b)["x"]
         /\ StateOf(last.id)["x"] = StateOf(b)["x"]

\* C8: merge fails with NotFound when the target or any listed source is not
\* live, with InvalidArgument when sourceIds is empty (the target being
\* live), and a merge that fails changes no universe: not its state, its
\* snapshots, its children, nor the live sets.
C8_MergeFailures ==
  [][last'.op = "merge" =>
       LET t == last'.id
           srcs == last'.sourceIds
       IN  /\ (t \notin tracked \/ \E k \in DOMAIN srcs : srcs[k] \notin tracked)
                => last'.outcome = "NotFound"
           /\ (t \in tracked /\ srcs = <<>>) => last'.outcome = "InvalidArgument"
           /\ last'.outcome # "ok" =>
                UNCHANGED <<heap, univ, engine, tracked>>]_vars

\* C8 witness: a merge whose target and first source are live and whose last
\* source is not has failed with NotFound
C8_Witness ==
  /\ last.op = "merge"
  /\ last.outcome = "NotFound"
  /\ last.id \in tracked
  /\ Len(last.sourceIds) = 2
  /\ last.sourceIds[1] \in tracked
  /\ last.sourceIds[2] \notin tracked

\* C9: createUniverses(count) with count <= 0 or count > maxBatchCount fails
\* with InvalidArgument and creates no universe in the engine and tracks none
\* in the manager.
C9_CountValidated ==
  [][\A count \in Counts, init \in InitialStates :
       (CreateUniverses(count, init) /\ (count <= 0 \/ count > maxBatchCount))
         => /\ last'.outcome = "InvalidArgument"
            /\ UNCHANGED <<heap, univ, engine, tracked, call>>]_vars

\* C9 witness: a createUniverses call has failed with InvalidArgument and the
\* store is empty
C9_Witness ==
  /\ last.op = "createUniverses"
  /\ last.outcome = "InvalidArgument"
  /\ engine = {} /\ tracked = {} /\ univ = <<>>

\* C10: a createUniverses(count) that returned has returned count universes,
\* pairwise distinct, all in the engine's map and tracked by the manager, they
\* and no other parentless universe with the batch id of the call, the k-th of them with creationIndex k - 1
\* (so the indices are exactly 0 .. count-1), made in ceil(count / batchSize)
\* chunks of at most batchSize items each.
C10_BatchShape ==
  (last.op = "createUniverses" /\ last.outcome = "ok") =>
    LET us == last.universes
    IN  /\ Len(us) = last.count
        /\ Cardinality(SeqSet(us)) = last.count
        /\ SeqSet(us) \subseteq engine \cap tracked
        /\ SeqSet(us) = {u \in DOMAIN univ : /\ univ[u].batchId = last.id
                                             /\ univ[u].parentId = Null}
        /\ \A k \in DOMAIN us :
             /\ univ[us[k]].batchId = last.id
             /\ univ[us[k]].creationIndex = k - 1
             /\ univ[us[k]].parentId = Null
        /\ {univ[us[k]].creationIndex : k \in DOMAIN us} = 0..(last.count - 1)
        /\ Len(last.chunkSizes) = (last.count + batchSize - 1) \div batchSize
        /\ \A c \in DOMAIN last.chunkSizes :
             last.chunkSizes[c] \in 1..batchSize

\* C10 witness: createUniverses(3) has returned under batchSize 2, in two chunks
C10_Witness ==
  /\ last.op = "createUniverses"
  /\ last.outcome = "ok"
  /\ last.count = 3
  /\ batchSize = 2
  /\ last.chunkSizes = <<2, 1>>

\* the parentless universes that carry the batch id of the createUniverses
\* call in flight
IssuedByCall ==
  {u \in DOMAIN univ : univ[u].batchId = call.batchId /\ univ[u].parentId = Null}

\* C11: while a createUniverses call waits for a chunk, every universe it has
\* issued is either resolved (pushed on its result list and tracked, with an
\* index below the chunk's start, in index order) or an item of the one chunk
\* it waits for: no item of a later chunk has been issued.
C11_ChunkBarrier ==
  call.pc = "await" =>
    /\ IssuedByCall = SeqSet(call.universes) \cup SeqSet(call.chunk)
    /\ Len(call.universes) = call.i
    /\ \A k \in DOMAIN call.universes :
         /\ call.universes[k] \in tracked
         /\ univ[call.universes[k]].creationIndex = k - 1
    /\ Len(call.chunk) <= call.bs
    /\ \A k \in DOMAIN call.chunk :
         /\ call.chunk[k] \notin tracked
         /\ univ[call.chunk[k]].creationIndex = call.i + k - 1
         /\ univ[call.chunk[k]].creationIndex < call.i + call.bs

\* C11 witness: the call waits for its second chunk with the first resolved
\* and an item still to issue
C11_Witness ==
  /\ call.pc = "await"
  /\ call.bs = 1
  /\ call.count = 3
  /\ Len(call.universes) = 1
  /\ Len(call.chunk) = 1

\* the item operations started and not yet completed: the callbacks of
\* processBatchOperation suspended on performOperation, the createUniverse
\* promises of the chunk createUniverses waits for
InFlight ==
  IF call.pc = "map" THEN Len(call.ops)
  ELSE IF call.pc = "await" THEN Len(call.chunk)
  ELSE 0

\* C12: at no point during createUniverses or processBatchOperation are more
\* item operations in flight than config.maxConcurrentOperations.
C12_BoundedInFlight == InFlight <= cfgMaxConcurrentOperations

\* ---- one operation at a time: what each operation does to the observable
\* store when it is the only one running, written on the observation itself
\* the operation is accepted: its target is tracked, an update has a mapping
\* as updates, a merge has sources and all of them are tracked
RefValid(a, op) ==
  /\ op.universeId \in a.tracked
  /\ op.operation = "update" => op.updates.kind = "object"
  /\ op.operation = "merge" =>
       /\ op.sourceIds # <<>>
       /\ \A k \in DOMAIN op.sourceIds : op.sourceIds[k] \in a.tracked

\* a's state of the target overlaid with the states of the sources from k on
RECURSIVE RefMerged(_, _, _, _)
RefMerged(a, acc, sourceIds, k) ==
  IF k > Len(sourceIds) THEN acc
  ELSE RefMerged(a, Spread(acc, a.states[sourceIds[k]]), sourceIds, k + 1)

RefApply(a, op) ==
  LET t == op.universeId
      n == Len(a.states) + 1
  IN  IF ~RefValid(a, op) THEN a
      ELSE CASE op.operation = "update" ->
                  [a EXCEPT !.states[t] = Spread(@, op.updates.props)]
             [] op.operation = "snapshot" ->
                  [a EXCEPT !.snapshots[t] = Append(@, a.states[t])]
             [] op.operation = "clone" ->
                  [states |-> Append(a.states, a.states[t]),
                   parents |-> Append(a.parents, t),
                   children |-> Append([a.children EXCEPT ![t] = Append(@, n)],
                                       <<>>),
                   snapshots |-> Append(a.snapshots, <<>>),
                   tracked |-> a.tracked \cup {n}]
             [] op.operation = "merge" ->
                  [a EXCEPT !.states[t] =
                              RefMerged(a, a.states[t], op.sourceIds, 1)]

\* the first k operations of ops applied to a, one at a time, in order
RECURSIVE RefRun(_, _, _)
RefRun(a, ops, k) ==
  IF k = 0 THEN a ELSE RefApply(RefRun(a, ops, k - 1), ops[k])

\* C13: processBatchOperation returns one result per entry, in the order of
\* the entries: for an entry whose target is tracked and whose parameters are
\* valid when its turn comes, the result of the operation; for every other
\* entry one failure entry with the entry's zero-based position.  The call
\* itself succeeds, and the store holds the effect of every accepted entry:
\* no failure cancels or rolls back another entry.
C13_PerItemFailures ==
  [][last'.op = "processBatch" =>
       LET ops == call.ops
           res == last'.results
       IN  /\ last'.outcome = "ok"
           /\ Len(ops) = call.count
           /\ Len(res) = Len(ops)
           /\ \A k \in DOMAIN ops :
                IF RefValid(RefRun(call.start, ops, k - 1), ops[k])
                THEN /\ DOMAIN res[k] = {"operation", "universeId"}
                     /\ res[k].operation = ops[k].operation
                     /\ res[k].universeId = ops[k].universeId
                ELSE /\ DOMAIN res[k] = {"error", "index"}
                     /\ res[k].index = k - 1
           /\ Observe(heap', univ', tracked')
                = RefRun(call.start, ops, Len(ops))
           /\ opsCompleted' - opsCompleted
                = Cardinality({k \in DOMAIN res : "index" \notin DOMAIN res[k]})
     ]_vars

\* C13 witness: a batch of three entries whose second names an unknown id has
\* returned two results and one failure entry, at index 1, and the update that
\* came after the failure is in the store
C13_Witness ==
  /\ last.op = "processBatch"
  /\ last.outcome = "ok"
  /\ Len(last.results) = 3
  /\ last.ops[2].universeId = UnknownId
  /\ last.ops[3].operation = "update"
  /\ DOMAIN last.results[1] = {"operation", "universeId"}
  /\ DOMAIN last.results[2] = {"error", "index"}
  /\ last.results[2].index = 1
  /\ last.results[2].error = "NotFound"
  /\ DOMAIN last.results[3] = {"operation", "universeId"}
  /\ "y" \in DOMAIN StateOf(1)

\* C14: when a create of the chunk createUniverses waits for has failed, the
\* call does not throw: the universes the chunk did create are tracked and
\* kept for the result, and the next chunk, if there is one, is issued.
C14_ItemFailureContained ==
  [][(call.pc = "await" /\ call.chunkFailed) =>
       /\ last'.outcome = "ok"
       /\ SeqSet(call.chunk) \subseteq tracked'
       /\ call.i + call.bs < call.count => call'.pc = "await"]_vars

\* C15: processBatchOperation called with an empty list does not complete as
\* a successful batch: the call throws and batchOperationsCompleted is not
\* incremented.
C15_EmptyListRejected ==
  [][(call.pc = "map" /\ call.count = 0) =>
       /\ last'.outcome # "ok"
       /\ batchOpsCompleted' = batchOpsCompleted]_vars

\* C16: clone, update, snapshot, branch and merge on a target id that the
\* manager does not track - never created, or deleted by cleanup - fail with
\* NotFound, and a call that fails with NotFound adds no universe and changes
\* no universe's state, children or snapshots, nor the sets of live ids.
C16_NotFoundLeavesStore ==
  [][last'.op \in {"clone", "update", "snapshot", "branch", "merge"} =>
       /\ last'.id \notin tracked => last'.outcome = "NotFound"
       /\ last'.outcome = "NotFound" =>
            UNCHANGED <<heap, univ, engine, tracked, snapCount>>]_vars

\* C16 witness: an operation on a universe that cleanup has deleted from the
\* manager's map has failed with NotFound while another universe is tracked
C16_Witness ==
  /\ last.op \in {"clone", "update", "snapshot", "branch", "merge"}
  /\ last.outcome = "NotFound"
  /\ last.id \in DOMAIN univ
  /\ last.id \in engine
  /\ last.id \notin tracked
  /\ tracked # {}

\* a value that is a mapping from keys to values
IsMapping(v) == v.kind = "object"

\* C17: an update whose updates value is not a key-to-value mapping (absent,
\* a number, a string or a list) fails with InvalidUpdate and leaves every
\* universe's state as it was.
C17_NonMappingRejected ==
  [][\A id \in KnownIds(univ) : \A v \in JsValues :
       (UpdateValue(id, v) /\ id \in tracked /\ ~IsMapping(v)) =>
         /\ last'.outcome = "InvalidUpdate"
         /\ UNCHANGED <<heap, univ>>]_vars

\* C18: branch(id, modifications) on a tracked id does what clone(id) followed
\* by updateState(newId, modifications) does.  Without modifications it is the
\* clone.  With a mapping: the new universe has parentId = id and the source's
\* state overlaid with the modifications, the source's state is as before and
\* its children gain the new id.  With any other value it fails as updateState
\* does, with InvalidUpdate.
C18_BranchIsCloneThenUpdate ==
  [][\A id \in KnownIds(univ) : \A v \in JsValues :
       (BranchValue(id, v) /\ id \in tracked) =>
         IF ~Falsy(v) /\ ~IsMapping(v)
         THEN last'.outcome = "InvalidUpdate"
         ELSE LET n == last'.newId
              IN  /\ last'.outcome = "ok"
                  /\ n = Len(univ) + 1
                  /\ univ'[n].parentId = id
                  /\ StateOfNext(n)
                       = IF IsMapping(v) THEN Spread(StateOf(id), v.props)
                         ELSE StateOf(id)
                  /\ StateOfNext(id) = StateOf(id)
                  /\ univ'[id].children = Append(univ[id].children, n)
                  /\ tracked' = tracked \cup {n}]_vars

\* C19: an update reports a copy-on-write break exactly when the universe's
\* storage is still shared: never for a universe without a parent, always for
\* a clone that was just made, and not for a universe that was just written,
\* by an update or by the modifications of the branch that made it.
JustCloned(id) ==
  /\ last.outcome = "ok"
  /\ last.newId = id
  /\ \/ last.op = "clone"
     \/ last.op = "branch" /\ StateOf(id) = StateOf(last.id)

JustWritten(id) ==
  /\ last.outcome = "ok"
  /\ \/ last.op = "update" /\ last.id = id
     \/ last.op = "branch" /\ last.newId = id /\ StateOf(id) # StateOf(last.id)

C19_BreakOnlyWhileShared ==
  [][(last'.op = "update" /\ last'.outcome = "ok") =>
       LET id == last'.id
       IN  /\ univ[id].parentId = Null => ~last'.cowTriggered
           /\ JustCloned(id) => last'.cowTriggered
           /\ (univ[id].parentId # Null /\ JustWritten(id)) =>
                ~last'.cowTriggered]_vars

\* C20: the structural mutations of one universe do not interleave.  While the
\* callbacks of a processBatchOperation call are being started, each entry's
\* read-modify-write of state, snapshots and children has run whole before the
\* next entry's begins: the store is what the entries started so far give when
\* they are applied one at a time, in the order of the list, to the store the
\* call found.  No update is lost, and a merge reads what the entries before
\* it wrote to its sources.
C20_MutationsSerialized ==
  call.pc = "map" =>
    Observe(heap, univ, tracked) = RefRun(call.start, call.ops, Len(call.ops))

\* C20 witness: in one batch, universe 1 was updated on y, universe 2 was
\* updated on x and universe 2 was then merged into universe 1, which holds
\* both writes
C20_Witness ==
  /\ call.pc = "map"
  /\ Len(call.ops) = 3
  /\ call.outcomes = <<"ok", "ok", "ok">>
  /\ call.ops[1].operation = "update" /\ call.ops[1].universeId = 1
  /\ "y" \in DOMAIN call.ops[1].updates.props
  /\ call.ops[2].operation = "update" /\ call.ops[2].universeId = 2
  /\ call.ops[3].operation = "merge"
  /\ "y" \notin DOMAIN call.start.states[1]
  /\ StateOf(1)["y"] = 2
  /\ StateOf(1)["x"] = StateOf(2)["x"]
  /\ StateOf(2)["x"] # call.start.states[2]["x"]

\* C21: eviction does not cascade.  A cleanup deletes from the live set only
\* the entries older than maxAge: every child of a deleted universe P that is
\* not itself that old stays live, with its state, snapshots and children as
\* they were and with parentId = P, and P's parent still lists P as a child.
C21_EvictionNoCascade ==
  [][last'.op = "cleanup" =>
       /\ tracked \ tracked' = {u \in tracked : u <= last'.id}
       /\ \A P \in tracked \ tracked' :
            /\ \A c \in SeqSet(univ[P].children) :
                 (c \in tracked /\ c > last'.id) =>
                   /\ c \in tracked'
                   /\ univ'[c].parentId = P
                   /\ StateOfNext(c) = StateOf(c)
                   /\ univ'[c].children = univ[c].children
                   /\ Len(univ'[c].snapshots) = Len(univ[c].snapshots)
                   /\ \A j \in DOMAIN univ[c].snapshots :
                        SnapStateNext(c, j) = SnapState(c, j)
            /\ univ[P].parentId # Null =>
                 P \in SeqSet(univ'[univ[P].parentId].children)
            /\ univ'[P] = univ[P]]_vars

\* C21 witness: cleanup has deleted universe 1 while its clone, which holds a
\* snapshot or a state of its own, is live and names 1 as its parent
C21_Witness ==
  /\ last.op = "cleanup"
  /\ 1 \notin tracked
  /\ \E c \in tracked :
       /\ univ[c].parentId = 1
       /\ c \in SeqSet(univ[1].children)
       /\ univ[c].snapshots # <<>> \/ StateOf(c) # StateOf(1)

Occurrences(q, e) == Cardinality({k \in DOMAIN q : q[k] = e})

\* C23: the integrity part of an analysis of universe id lists one
\* parent-not-found entry iff id has a parentId that is not live, one
\* child-not-found entry for each id in children that is not live, and
\* nothing else; healthy is true iff the list is empty.  For a universe whose
\* parent was evicted and whose children are all live the list has exactly
\* one entry.
C23_IntegrityIssues ==
  [][(last'.op = "analyze" /\ last'.outcome = "ok") =>
       LET id == last'.id
           issues == last'.analysis.issues
           orphan == univ[id].parentId # Null /\ univ[id].parentId \notin tracked
           lost == {c \in SeqSet(univ[id].children) : c \notin tracked}
       IN  /\ Occurrences(issues, ParentIssue) = IF orphan THEN 1 ELSE 0
           /\ \A c \in SeqSet(univ[id].children) :
                Occurrences(issues, ChildIssue(c)) = IF c \in lost THEN 1 ELSE 0
           /\ Len(issues) = (IF orphan THEN 1 ELSE 0) + Cardinality(lost)
           /\ last'.analysis.healthy <=> issues = <<>>
           /\ (orphan /\ lost = {}) => Len(issues) = 1]_vars

\* C23 witness: the analysis of a universe whose parent was evicted and whose
\* child is live has reported the one issue, parent not found
C23_Witness ==
  /\ last.op = "analyze"
  /\ last.outcome = "ok"
  /\ univ[last.id].parentId # Null
  /\ univ[last.id].parentId \notin tracked
  /\ univ[last.id].children # <<>>
  /\ SeqSet(univ[last.id].children) \subseteq tracked
  /\ last.analysis.issues = <<ParentIssue>>
  /\ ~last.analysis.healthy

\* the live universes reachable from id through children lists, not going
\* through a child that is not live
RECURSIVE LiveBelow(_, _, _)
LiveBelow(us, trk, id) ==
  LET live == {c \in SeqSet(us[id].children) : c \in trk}
  IN  live \cup UNION {LiveBelow(us, trk, c) : c \in live}

\* C24: the descendants count of an analysis of universe id is the number of
\* live universes reachable from id through children lists; an evicted child
\* adds nothing, neither itself nor what is below it.
C24_DescendantsLiveOnly ==
  [][(last'.op = "analyze" /\ last'.outcome = "ok") =>
       last'.analysis.descendants
         = Cardinality(LiveBelow(univ, tracked, last'.id))]_vars

\* C25: the siblings of an analysis of universe id are exactly the live
\* universes other than id with id's parentId, each listed once, and none
\* when id has no parent; whether the parent is live does not matter.
C25_SiblingsLiveSameParent ==
  [][(last'.op = "analyze" /\ last'.outcome = "ok") =>
       LET id == last'.id
           sibs == last'.analysis.siblings
       IN  /\ SeqSet(sibs)
                = IF univ[id].parentId = Null THEN {}
                  ELSE {u \in tracked :
                          u # id /\ univ[u].parentId = univ[id].parentId}
           /\ Len(sibs) = Cardinality(SeqSet(sibs))]_vars

\* C25 witness: the analysis of universe 2, a clone of universe 1 like
\* universe 3, has listed 3 as its only sibling after 1 was evicted
C25_Witness ==
  /\ last.op = "analyze"
  /\ last.outcome = "ok"
  /\ last.id = 2
  /\ univ[2].parentId = 1
  /\ 1 \notin tracked
  /\ last.analysis.siblings = <<3>>

\* C26: the read queries are pure.  getUniverse, an analysis (siblings,
\* descendants, integrity) and getStatistics (distribution) leave the live
\* set and every universe's state, children, snapshots and lineage as they
\* were; getUniverse never fails and returns null for an id that is not live.
C26_QueriesPure ==
  [][last'.op \in {"get", "analyze", "statistics"} =>
       /\ UNCHANGED <<heap, univ, engine, tracked, snapCount>>
       /\ last'.op = "get" =>
            /\ last'.outcome = "ok"
            /\ last'.found = IF last'.id \in tracked THEN last'.id ELSE Null
     ]_vars

\* C26 witness: an analysis has run on a universe that holds a snapshot and
\* has lost its child to cleanup
C26_Witness ==
  /\ last.op = "analyze"
  /\ last.outcome = "ok"
  /\ univ[last.id].snapshots # <<>>
  /\ \E c \in SeqSet(univ[last.id].children) : c \notin tracked

\* C26 second case: getUniverse has returned null for an evicted id
C26_WitnessAbsent ==
  /\ last.op = "get"
  /\ last.id \in DOMAIN univ
  /\ last.id \notin tracked
  /\ last.found = Null
  /\ tracked # {}

\* C27: the snapshot log of every universe is append-only and its entries are
\* immutable.  In every step each universe keeps the snapshots it had, at
\* their positions, with their ids and contents; a successful snapshot
\* operation adds exactly one entry, at the end of its target's log, and no
\* other step changes the length of a log.  Cleanup deletes the entry of the
\* owning universe and leaves the log alone.
C27_SnapshotsAppendOnly ==
  [][\A u \in DOMAIN univ :
       LET old == univ[u].snapshots
           new == univ'[u].snapshots
           taken == /\ last'.op = "snapshot"
                    /\ last'.outcome = "ok"
                    /\ last'.id = u
       IN  /\ Len(new) = Len(old) + (IF taken THEN 1 ELSE 0)
           /\ \A j \in DOMAIN old :
                /\ new[j].id = old[j].id
                /\ new[j].universeId = old[j].universeId
                /\ SnapStateNext(u, j) = SnapState(u, j)
           /\ taken => new[Len(new)].id = last'.newId]_vars

\* C27 witness: a second snapshot of a universe was just taken and is the
\* last of two entries
C27_Witness ==
  /\ last.op = "snapshot"
  /\ last.outcome = "ok"
  /\ Len(univ[last.id].snapshots) = 2
  /\ univ[last.id].snapshots[2].id = last.newId
  /\ univ[last.id].snapshots[1].id # last.newId

\* q is p with entries added at the end, or p itself
IsPrefix(p, q) == Len(p) <= Len(q) /\ \A k \in DOMAIN p : q[k] = p[k]

\* C28: lineage is immutable.  No step changes the id or the parentId of a
\* universe, and a children list only grows at its end: no id is taken out of
\* it, not even when cleanup deletes the child.
C28_LineageImmutable ==
  [][\A u \in DOMAIN univ :
       /\ u \in DOMAIN univ'
       /\ univ'[u].id = univ[u].id
       /\ univ'[u].parentId = univ[u].parentId
       /\ IsPrefix(univ[u].children, univ'[u].children)]_vars

\* C28 witness: cleanup has deleted a universe that is still in the children
\* list of its parent, under the parentId it was cloned with
C28_Witness ==
  /\ last.op = "cleanup"
  /\ \E u \in DOMAIN univ : \E c \in SeqSet(univ[u].children) :
       /\ c \notin tracked
       /\ univ[c].parentId = u
       /\ univ[c].id = c

\* the events of q with a name in names
EventsNamed(q, names) == {k \in DOMAIN q : q[k].name \in names}

\* C29: every completed call emits exactly one completion event carrying its
\* outcome.  A single-universe operation emits one 'operation:completed' when
\* it succeeds and one 'operation:error' when it fails, an unknown target id
\* included, and nothing else; a batch call emits exactly one batch-level
\* event.
C29_OneEventPerCall ==
  [][/\ last'.op \in {"snapshot", "clone", "update", "branch", "merge"} =>
          /\ Len(last'.events) = 1
          /\ last'.events[1].name
               = IF last'.outcome = "ok" THEN "operation:completed"
                 ELSE "operation:error"
     /\ last'.op \in {"createUniverses", "processBatch"} =>
          Cardinality(EventsNamed(last'.events,
                                  {"batch:created", "batch:processed",
                                   "batch:error"})) = 1]_vars

\* C30: when the deadline of a batch passes, the entries started before it
\* are returned with their success or failure and every entry not yet started
\* is returned as a Cancelled failure.
C30_DeadlineCancelsUnstarted ==
  [][(last'.op = "processBatch" /\ call.expired) =>
       \A k \in DOMAIN last'.results :
         IF k > call.startedAtExpiry
         THEN /\ "error" \in DOMAIN last'.results[k]
              /\ last'.results[k].error = "Cancelled"
         ELSE ("error" \in DOMAIN last'.results[k])
                <=> call.outcomes[k] # "ok"]_vars

\* C31: a snapshot's state is an independent deep copy: no nested object of a
\* snapshot is a nested object of the live state of any universe, so a change
\* to a nested value of a live state cannot show through a snapshot.
C31_SnapshotDeepCopy ==
  \A v \in DOMAIN univ : \A j \in DOMAIN univ[v].snapshots :
    \A u \in DOMAIN univ :
      NestedIn(SnapState(v, j)) \cap NestedIn(StateOf(u)) = {}

\* C32: a branch is recorded with a branch type tag in its metadata, which
\* tells it from the created universes and from a plain clone: its
\* metadata.type is neither the type of a universe made by createUniverses
\* nor the type a plain clone of the same source gets.
C32_BranchTypeTag ==
  [][(last'.op = "branch" /\ last'.outcome = "ok") =>
       LET b == univ'[last'.newId]
       IN  /\ \A u \in DOMAIN univ : univ[u].parentId = Null =>
                b.type # univ[u].type
           /\ b.type # clone(heap, univ, last'.id).univ[last'.newId].type]_vars

\* C33: metadata.stateSize of every universe is the serialized size of its
\* current state after every step (create, clone, branch, updateState, merge),
\* and the sizeChange an updateState reports is the new stateSize minus the
\* old one.
C33_StateSizeCurrent ==
  [][/\ \A u \in DOMAIN univ' :
          univ'[u].stateSize = JsonLength(StateOfNext(u))
     /\ (last'.op = "update" /\ last'.outcome = "ok") =>
          last'.sizeChange
            = univ'[last'.id].stateSize - univ[last'.id].stateSize]_vars

\* C33 witness: an updateState has added a property to the state of a universe,
\* so its serialized size has grown, next to a universe of another size
C33_Witness ==
  /\ last.op = "update" /\ last.outcome = "ok"
  /\ last.sizeChange > 0
  /\ univ[last.id].stateSize = JsonLength(StateOf(last.id))
  /\ \E u \in DOMAIN univ : univ[u].stateSize # univ[last.id].stateSize

\* C34: each distribution getStatistics returns (by type, by age bucket, by
\* complexity bucket) is a partition of the live universes: its bucket counts
\* sum to the number of tracked universes, so every tracked universe is
\* counted once and no evicted universe is counted.
C34_DistributionsPartition ==
  last.op = "statistics" =>
    \A d \in {last.stats.byType, last.stats.byAge, last.stats.byComplexity} :
      /\ SumOver(DOMAIN d, d) = Cardinality(tracked)
      /\ \A b \in DOMAIN d : d[b] >= 0

\* C34 witness: statistics taken while an evicted universe exists and the
\* tracked universes fall in different age buckets
C34_Witness ==
  /\ last.op = "statistics"
  /\ DOMAIN univ \ tracked # {}
  /\ last.stats.byAge["new"] = 1 /\ last.stats.byAge["old"] = 1
  /\ last.stats.byComplexity["simple"] = Cardinality(tracked)

\* C35: between calls, statistics.totalCreated - statistics.totalDestroyed is
\* the number of universes the manager tracks, also after a createUniverses
\* batch that failed when some of its chunks were tracked already.
C35_StatisticsAccount ==
  call.pc = "idle" =>
    statistics.totalCreated - statistics.totalDestroyed = Cardinality(tracked)

\* C36: between calls, the manager's map and the engine's store hold the same
\* universe ids: what createUniverses, clone or branch registered is in the
\* engine's store, and what cleanup evicted is gone from it.
C36_ManagerEngineAgree ==
  call.pc = "idle" => tracked = engine

\* C37: statistics.peakConcurrentUniverses never decreases and, between
\* calls, is at least the number of universes the manager tracks, whichever
\* of createUniverses, clone and branch added them.
C37_PeakHighWaterMark ==
  [][/\ statistics'.peakConcurrentUniverses
          >= statistics.peakConcurrentUniverses
     /\ call'.pc = "idle" =>
          statistics'.peakConcurrentUniverses >= Cardinality(tracked')]_vars

\* the continuation of the batch in flight that can run next: the callback
\* of the next entry, the settling of the batch, or the finally block
QueueStepReady ==
  \/ call.pc = "map" /\ Len(call.ops) < Len(call.batch)
       /\ Len(call.ops) < call.count
  \/ call.pc = "map" /\ Len(call.ops) = call.count
  \/ isProcessing /\ call.pc # "map"

\* the continuations a batch in flight still has to run before isProcessing
\* is false again
QueueStepsLeft ==
  IF ~isProcessing THEN 0
  ELSE IF call.pc = "map" THEN 2 + Len(call.batch) - Len(call.ops)
  ELSE 1

\* C38: the queue processor is mutually exclusive.  A tick that fires while
\* isProcessing is set removes nothing from operationQueue and starts no
\* batch; a tick that runs takes at most maxConcurrentOperations entries off
\* the front of the queue; a batch in flight has isProcessing set; the
\* operations executed for a batch are the entries taken, once each and in
\* their order; and isProcessing returns to false after every batch: while it
\* is set a continuation of the batch can run, every continuation brings the
\* finally block nearer and no other step takes it further away.
C38_QueueExclusive ==
  [][/\ (last'.op = "queue:tick" /\ isProcessing) =>
          UNCHANGED <<operationQueue, isProcessing, call>>
     /\ (last'.op = "queue:tick" /\ ~isProcessing) =>
          /\ Len(call'.batch) <= cfgMaxConcurrentOperations
          /\ operationQueue = call'.batch \o operationQueue'
          /\ isProcessing' = (call'.batch # <<>>)
     /\ call'.batch # <<>> => isProcessing'
     /\ (last'.op = "processBatch" /\ call.batch # <<>>) =>
          /\ last'.ops = call.batch
          /\ Len(last'.results) = Len(call.batch)
     /\ last'.op = "queue:done" => ~isProcessing'
     /\ isProcessing' => QueueStepReady'
     /\ isProcessing =>
          /\ QueueStepsLeft' <= QueueStepsLeft
          /\ last'.op \in {"processBatch:item", "processBatch", "queue:done"}
               => QueueStepsLeft' < QueueStepsLeft]_vars

\* C38 witness: a tick has fired while a batch was in flight, with entries
\* waiting in the queue behind a batch of maxConcurrentOperations entries
C38_Witness ==
  /\ last.op = "queue:tick"
  /\ isProcessing
  /\ Len(call.batch) = cfgMaxConcurrentOperations
  /\ Len(call.ops) = Len(call.batch)
  /\ operationQueue # <<>>

\* C38 second case: a batch of the queue has completed with a failed entry
\* and the flag is down again
C38_WitnessDone ==
  /\ last.op = "queue:done"
  /\ ~isProcessing
  /\ batchOpsCompleted = MaxQueueBatches
  /\ opsCompleted < MaxQueueBatches * cfgMaxConcurrentOperations

\* the universes reachable from the set S through at most n more children
\* links
RECURSIVE DescendantsWithin(_, _, _)
DescendantsWithin(us, S, n) ==
  IF n = 0 THEN S
  ELSE DescendantsWithin(us,
                         S \cup UNION {SeqSet(us[v].children) : v \in S},
                         n - 1)

\* the universes reachable from u through children lists
Descendants(us, u) == DescendantsWithin(us, SeqSet(us[u].children), Len(us))

\* C39: the graph of the children lists has no cycle: no universe is reachable
\* from itself, every child was cloned from the universe that lists it and
\* has a later id.  The descendant count of every tracked universe is
\* therefore computed, and it counts no more than the universes reachable.
C39_ChildrenAcyclic ==
  /\ \A u \in DOMAIN univ :
       /\ u \notin Descendants(univ, u)
       /\ \A k \in DOMAIN univ[u].children :
            /\ univ[u].children[k] > u
            /\ univ[univ[u].children[k]].parentId = u
  /\ \A u \in tracked :
       countDescendants(univ, tracked, u)
         <= Cardinality(Descendants(univ, u))

\* C39 witness: a chain of three generations whose first universe has been
\* evicted; the count for the second is made over a graph that still lists
\* it as a child of the evicted one
C39_Witness ==
  \E a, b, c \in DOMAIN univ :
    /\ univ[b].parentId = a /\ univ[c].parentId = b
    /\ a \notin tracked /\ b \in tracked /\ c \in tracked
    /\ countDescendants(univ, tracked, b) = 1
    /\ Cardinality(Descendants(univ, a)) = 2

\* C40: createUniverses terminates for every count it accepts and every
\* integer config.batchSize, zero and negative values included: the index of
\* the chunk loop is larger at every await of the loop than it was at the
\* await before.
C40_ChunkLoopAdvances ==
  [][(call.pc = "await" /\ call'.pc = "await") => call'.i > call.i]_vars

====
